---------------------------- MODULE Spec2Model ----------------------------
(***************************************************************************)
(* The six-stage shortlist pipeline of ml-service/app/agents:              *)
(*   jd_understanding -> retrieval -> fusion -> evidence_building          *)
(*   -> ranking -> assembly                                                *)
(* Each stage handler is one action on the run state (AgentState).         *)
(*                                                                         *)
(* Conventions of the model                                                *)
(*  - candidate ids are numbered 1, 2, ... in the order of their strings,  *)
(*    so "candidate id ascending" is < on the numbers;                     *)
(*  - a text is modelled by its length and by whether it ends in "..."     *)
(*    (the code only slices and measures texts and appends "...");         *)
(*  - Python's None is Null;                                               *)
(*  - an rrf_score is the exact fraction <<num, den>>; a final_score,      *)
(*    which the code rounds to one decimal, is kept in tenths of a         *)
(*    percent (final_score 35.0 is 350);                                   *)
(*  - the settings of agents/config.py are read from the environment; the  *)
(*    pool sizes K_POOL, K_RERANK and MAX_RESULTS are run here with small  *)
(*    values that keep their order K_POOL > K_RERANK > 2 * MAX_RESULTS,    *)
(*    every other setting has its default.                                 *)
(***************************************************************************)
EXTENDS Integers, Sequences, FiniteSets, TLC

VARIABLES
    pc,               \* the stage that runs next, "done" or "error"
    query_text,       \* AgentState.query_text
    parsed,           \* jd_agent_node: the JSON object parsed from the LLM reply
    mission_spec,     \* AgentState.mission_spec
    sparse_results,   \* AgentState.sparse_results
    dense_results,    \* AgentState.dense_results
    fused_candidates, \* AgentState.fused_candidates
    evidence_packs,   \* AgentState.evidence_packs
    rerank_scores,    \* AgentState.rerank_scores
    final_results,    \* AgentState.final_results
    current_agent,    \* AgentState.current_agent
    stage_timings,    \* AgentState.stage_timings (its keys)
    match_quality,    \* assembly_node: the local match_quality
    response,         \* the ShortlistResponse dumped into the result event
    events,           \* what the stage writers have emitted, in order
    model_loads,      \* the models the process has loaded, one entry per load
    search_query_text, \* the query_text argument of the chunk searches
    norm_input,       \* normalize_skills: the list it is called with
    norm_output,      \* normalize_skills: the list it returned
    chunk_matches     \* resume_chunks: the occurrences of the terms of a
                      \* lexical search in the text of each chunk read

vars == <<pc, query_text, parsed, mission_spec, sparse_results, dense_results,
          fused_candidates, evidence_packs, rerank_scores, final_results,
          current_agent, stage_timings, match_quality, response, events,
          model_loads, search_query_text, norm_input, norm_output,
          chunk_matches>>

---------------------------------------------------------------------------
(* Settings: agents/config.py *)

K_DENSE == 300
K_SPARSE == 300
K_POOL == 4
RRF_K == 60
MAX_CHUNKS_PER_CANDIDATE == 5
MAX_CHARS_PER_CHUNK == 800
MAX_TOTAL_CHARS_PER_CANDIDATE == 2500
K_RERANK == 3
\* W_RRF = 0.35 and W_CE = 0.65, in hundredths
W_RRF == 35
W_CE == 65
MIN_RELEVANCE_SCORE == 20
HARD_FILTER_ENABLED == TRUE
MAX_RESULTS == 1

---------------------------------------------------------------------------
(* Bounds of the model *)

\* the longest hit list a sub-search returns in the model (at most K_SPARSE, K_DENSE)
MaxHits == 3
\* raw cross-encoder scores are drawn from -1 .. MaxRawScore
MaxRawScore == 2

Null == 0

---------------------------------------------------------------------------
(* Generic helpers *)

Range(s) == {s[i] : i \in 1..Len(s)}

Min(a, b) == IF a <= b THEN a ELSE b

Max(a, b) == IF a >= b THEN a ELSE b

\* [r["candidate_id"] for r in records]
CandidateIds(records) == [i \in 1..Len(records) |-> records[i].candidate_id]

NoDuplicates(q) == \A i, j \in 1..Len(q) : q[i] = q[j] => i = j

\* s[:n] of Python, for n >= 0
Take(s, n) == SubSeq(s, 1, Min(n, Len(s)))

\* the sequences that enumerate the finite set S once each
Orders(S) == {o \in [1..Cardinality(S) -> S] : Range(o) = S}

\* the injective sequences over S of length at most n
InjSeqs(S, n) ==
    UNION {{q \in [1..k -> S] : \A i, j \in 1..k : q[i] = q[j] => i = j} : k \in 0..n}

\* list.sort(key=..., reverse=True): a stable sort. before[i, j] is "the key
\* of s[i] orders strictly before the key of s[j]"; elements with equal keys
\* keep their order.
StableSort(s, before) ==
    LET pos(i) == Cardinality({j \in 1..Len(s) : before[j, i]})
                  + Cardinality({j \in 1..(i - 1) : ~before[j, i] /\ ~before[i, j]})
                  + 1
    IN  [p \in 1..Len(s) |-> s[CHOOSE i \in 1..Len(s) : pos(i) = p]]

---------------------------------------------------------------------------
(* Exact fractions <<num, den>> with den > 0, for the float scores *)

FracLess(a, b) == a[1] * b[2] < b[1] * a[2]

FracEq(a, b) == a[1] * b[2] = b[1] * a[2]

FracAdd(a, b) == <<a[1] * b[2] + b[1] * a[2], a[2] * b[2]>>

---------------------------------------------------------------------------
(* The document store: resume_chunks and resumes_core *)

\* a stored text of n characters, none of them a dot
Text(n) == [len |-> n, dots |-> FALSE]

\* t[:n] of Python, for n >= 0
Slice(t, n) == IF t.len <= n THEN t ELSE [len |-> n, dots |-> FALSE]

\* t + "..."
WithEllipsis(t) == [len |-> t.len + 3, dots |-> TRUE]

\* resume_chunks, in storage order
resume_chunks ==
    << [chunkId |-> "a1", resumeId |-> 1, sectionType |-> "experience", chunkText |-> Text(800)],
       [chunkId |-> "a2", resumeId |-> 1, sectionType |-> "experience", chunkText |-> Text(900)],
       [chunkId |-> "a3", resumeId |-> 1, sectionType |-> "projects",   chunkText |-> Text(800)],
       [chunkId |-> "a4", resumeId |-> 1, sectionType |-> "skills",     chunkText |-> Text(800)],
       [chunkId |-> "a5", resumeId |-> 1, sectionType |-> "summary",    chunkText |-> Text(55)],
       [chunkId |-> "a6", resumeId |-> 1, sectionType |-> "education",  chunkText |-> Text(50)],
       [chunkId |-> "b1", resumeId |-> 2, sectionType |-> "experience", chunkText |-> Text(300)],
       [chunkId |-> "c1", resumeId |-> 3, sectionType |-> "experience", chunkText |-> Text(120)],
       [chunkId |-> "d1", resumeId |-> 4, sectionType |-> "summary",    chunkText |-> Text(40)],
       [chunkId |-> "e1", resumeId |-> 5, sectionType |-> "skills",     chunkText |-> Text(10)] >>

\* what a sub-search of tools.py returns for the stored chunk d, before the
\* rank is set: tools.py lines 148-154 and 203-209
Hit(d, rank, source) ==
    [chunk_id |-> d.chunkId, candidate_id |-> d.resumeId,
     section_type |-> d.sectionType,
     chunk_text |-> Slice(d.chunkText, MAX_CHARS_PER_CHUNK),
     rank |-> rank, source |-> source]

\* the hit lists a sub-search can return over the stored chunks numbered in
\* docs: any choice of at most MaxHits of them in any order, rank = 1..N in
\* output order, tagged with the source as retriever_agent_node does
HitLists(docs, source) ==
    {[i \in 1..Len(q) |-> Hit(resume_chunks[q[i]], i, source)] :
        q \in InjSeqs(docs, MaxHits)}

---------------------------------------------------------------------------
(* Events: what a stage hands to its writer *)

Ev(event, agent, stage, tool) ==
    [event |-> event, agent |-> agent, stage |-> stage, tool |-> tool]

\* embedder.py lines 15-18: Embedder() loads the SentenceTransformer in its
\* constructor; loads is the list of the loads of the process so far
NewEmbedder(loads) == Append(loads, "embedder")

\* reranker.py lines 17-51: a Reranker() starts with _mode = None, so the
\* _load() of its first rerank() loads the model
NewReranker(loads) == Append(loads, "reranker")

---------------------------------------------------------------------------
(* Stage 3, fusion.py *)

\* the worst (highest) rank of each candidate instead of the best
AggregateToResumeRanksWorst(results) ==
    [cid \in {results[i].candidate_id : i \in 1..Len(results)} |->
        LET ranks == {results[i].rank : i \in {j \in 1..Len(results) :
                                                  results[j].candidate_id = cid}}
        IN  CHOOSE r \in ranks : \A x \in ranks : r >= x]

\* _aggregate_to_resume_ranks: the best (lowest) rank of each candidate, as a
\* function on the candidates of the list
AggregateToResumeRanks(results) ==
    [cid \in {results[i].candidate_id : i \in 1..Len(results)} |->
        LET ranks == {results[i].rank : i \in {j \in 1..Len(results) :
                                                  results[j].candidate_id = cid}}
        IN  CHOOSE r \in ranks : \A x \in ranks : r <= x]

\* dict.get(cid): None for a candidate the list does not hold
RankGet(ranks, cid) == IF cid \in DOMAIN ranks THEN ranks[cid] ELSE Null

\* fusion_node lines 51-58: 1/(k + sr) + 1/(k + dr) over the ranks present
RrfScore(sr, dr) ==
    FracAdd(IF sr # Null THEN <<1, RRF_K + sr>> ELSE <<0, 1>>,
            IF dr # Null THEN <<1, RRF_K + dr>> ELSE <<0, 1>>)

\* fusion_node lines 60-65: matched_skills of the candidate's first sparse hit;
\* the hits of lexical_search_chunks carry no matched_skills, so it is []
MatchedSkills(sparse, cid) == <<>>

\* fusion_node lines 50-74: the record appended for candidate cid
FusedRecord(sparse, dense, cid) ==
    LET sr == RankGet(AggregateToResumeRanks(sparse), cid)
        dr == RankGet(AggregateToResumeRanks(dense), cid)
    IN  [candidate_id |-> cid,
         rrf_score |-> RrfScore(sr, dr),
         dense_rank |-> dr,
         sparse_rank |-> sr,
         matched_skills |-> MatchedSkills(sparse, cid),
         matched_count |-> Len(MatchedSkills(sparse, cid))]

\* fusion_node line 42: all_ids, a Python set of strings
AllIds(sparse, dense) ==
    DOMAIN AggregateToResumeRanks(sparse) \cup DOMAIN AggregateToResumeRanks(dense)

\* fusion_node line 77: fused.sort(key=rrf_score, reverse=True)
RrfBefore(a, b) == FracLess(b.rrf_score, a.rrf_score)

SortFused(fused) ==
    StableSort(fused, [i, j \in 1..Len(fused) |-> RrfBefore(fused[i], fused[j])])

\* the list left whole
CapFusedNoCap(fused) == fused

\* fusion_node line 78: fused[:K_POOL]
CapFused(fused) == Take(fused, K_POOL)

\* fusion_node lines 49-78, with order the order in which `for cid in all_ids`
\* visits the set all_ids
Fuse(sparse, dense, order) ==
    CapFused(SortFused([i \in 1..Len(order) |-> FusedRecord(sparse, dense, order[i])]))

\* a fusion that empties the hit lists it has read
FusionNodeEmptying ==
    /\ pc = "fusion"
    /\ \E order \in Orders(AllIds(sparse_results, dense_results)) :
          fused_candidates' = Fuse(sparse_results, dense_results, order)
    /\ sparse_results' = <<>>
    /\ dense_results' = <<>>
    /\ events' = events \o << Ev("agent_start", "Fusion", "3", ""),
                              Ev("agent_thought", "Fusion", "", ""),
                              Ev("stage_complete", "", "fusion", "") >>
    /\ current_agent' = "fusion"
    /\ stage_timings' = stage_timings \cup {"fusion"}
    /\ pc' = "evidence_building"
    /\ UNCHANGED <<query_text, parsed, mission_spec, evidence_packs, rerank_scores,
                   final_results, match_quality, response>>
    /\ UNCHANGED <<model_loads, search_query_text, norm_input, norm_output>>
    /\ UNCHANGED chunk_matches

\* the iteration order of a set of strings is fixed by their hashes, which
\* differ from one interpreter process to the next: any order can occur
FusionNode ==
    /\ pc = "fusion"
    /\ \E order \in Orders(AllIds(sparse_results, dense_results)) :
          fused_candidates' = Fuse(sparse_results, dense_results, order)
    /\ events' = events \o << Ev("agent_start", "Fusion", "3", ""),
                              Ev("agent_thought", "Fusion", "", ""),
                              Ev("stage_complete", "", "fusion", "") >>
    /\ current_agent' = "fusion"
    /\ stage_timings' = stage_timings \cup {"fusion"}
    /\ pc' = "evidence_building"
    /\ UNCHANGED <<query_text, parsed, mission_spec, sparse_results, dense_results,
                   evidence_packs, rerank_scores, final_results, match_quality,
                   response>>
    /\ UNCHANGED <<model_loads, search_query_text, norm_input, norm_output>>
    /\ UNCHANGED chunk_matches

---------------------------------------------------------------------------
(* Stage 4, evidence_agent.py *)

\* _group_by_candidate(results).get(cid, [])
ChunksOf(results, cid) ==
    SelectSeq(results, LAMBDA r : r.candidate_id = cid)

EvidenceItem(chunk, why) ==
    [chunk_id |-> chunk.chunk_id, section |-> chunk.section_type,
     text_snippet |-> Slice(chunk.chunk_text, MAX_CHARS_PER_CHUNK),
     why_matched |-> why]

ChunkIds(items) == {items[i].chunk_id : i \in 1..Len(items)}

\* _build_evidence_for_candidate lines 151-160: the sparse chunks, each chunk
\* id once (seen_chunks is the set of the chunk ids of all_evidence)
RECURSIVE MergeSparse(_, _, _)
MergeSparse(chunks, i, all_evidence) ==
    IF i > Len(chunks) THEN all_evidence
    ELSE IF chunks[i].chunk_id \in ChunkIds(all_evidence)
         THEN MergeSparse(chunks, i + 1, all_evidence)
         ELSE MergeSparse(chunks, i + 1,
                          Append(all_evidence, EvidenceItem(chunks[i], "sparse")))

\* lines 166-169: the first item with this chunk id becomes "both"
MarkBoth(all_evidence, chunk_id) ==
    LET k == CHOOSE i \in 1..Len(all_evidence) :
                /\ all_evidence[i].chunk_id = chunk_id
                /\ \A j \in 1..(i - 1) : all_evidence[j].chunk_id # chunk_id
    IN  [all_evidence EXCEPT ![k].why_matched = "both"]

\* lines 162-177: the dense chunks
RECURSIVE MergeDense(_, _, _)
MergeDense(chunks, i, all_evidence) ==
    IF i > Len(chunks) THEN all_evidence
    ELSE IF chunks[i].chunk_id \in ChunkIds(all_evidence)
         THEN MergeDense(chunks, i + 1, MarkBoth(all_evidence, chunks[i].chunk_id))
         ELSE MergeDense(chunks, i + 1,
                         Append(all_evidence, EvidenceItem(chunks[i], "dense")))

\* line 180: match_order.get(why_matched, 3)
MatchOrder(why) ==
    IF why = "both" THEN 0 ELSE IF why = "sparse" THEN 1
    ELSE IF why = "dense" THEN 2 ELSE 3

\* line 181: sort by (match_order, -len(text_snippet))
EvidenceBefore(a, b) ==
    \/ MatchOrder(a.why_matched) < MatchOrder(b.why_matched)
    \/ /\ MatchOrder(a.why_matched) = MatchOrder(b.why_matched)
       /\ a.text_snippet.len > b.text_snippet.len

SortEvidence(all_evidence) ==
    StableSort(all_evidence,
               [i, j \in 1..Len(all_evidence) |->
                   EvidenceBefore(all_evidence[i], all_evidence[j])])

\* line 193: e.text_snippet[:remaining] + "..."
TruncateToFit(e, remaining) ==
    [e EXCEPT !.text_snippet = WithEllipsis(Slice(e.text_snippet, remaining))]

\* lines 184-197: the loop that applies the two bounds, from item i on
RECURSIVE ApplyBounds(_, _, _, _)
ApplyBounds(all_evidence, i, bounded, total_chars) ==
    IF i > Len(all_evidence) THEN bounded
    ELSE IF Len(bounded) >= MAX_CHUNKS_PER_CANDIDATE THEN bounded
    ELSE LET e == all_evidence[i] IN
         IF total_chars + e.text_snippet.len > MAX_TOTAL_CHARS_PER_CANDIDATE
         THEN LET remaining == MAX_TOTAL_CHARS_PER_CANDIDATE - total_chars IN
              IF remaining > 50
              THEN Append(bounded, TruncateToFit(e, remaining))
              ELSE bounded
         ELSE ApplyBounds(all_evidence, i + 1, Append(bounded, e),
                          total_chars + e.text_snippet.len)

\* line 202 and lines 114-116: the first 100 characters of the first three snippets
FallbackHighlights(evidence) ==
    [i \in 1..Min(3, Len(evidence)) |-> Slice(evidence[i].text_snippet, 100)]

\* _build_evidence_for_candidate(...).model_dump()
BuildEvidenceForCandidate(candidate_id, sparse_chunks, dense_chunks) ==
    LET bounded == ApplyBounds(
                     SortEvidence(MergeDense(dense_chunks, 1,
                                             MergeSparse(sparse_chunks, 1, <<>>))),
                     1, <<>>, 0)
    IN  [candidate_id |-> candidate_id,
         evidence |-> bounded,
         highlights |-> FallbackHighlights(bounded)]

\* evidence_agent_node line 40 and ranker_agent_node line 24: fused[:K_RERANK]
TopCandidates(fused) == Take(fused, K_RERANK)

TopIds(fused) == [i \in 1..Len(TopCandidates(fused)) |-> TopCandidates(fused)[i].candidate_id]

\* what the highlight call of lines 96-107 can come to for one candidate: the
\* LLM's lines that are longer than 5 characters, at most three of them, or an
\* exception, after which lines 111-116 store the fallback
LlmHighlights == {"three lines", "no line", "raises"}

HighlightsAfter(pack, outcome) ==
    IF outcome = "three lines" THEN <<Text(40), Text(60), Text(80)>>
    ELSE IF outcome = "no line" THEN <<>>
    ELSE FallbackHighlights(pack.evidence)

\* lines 79-90: the first 20 keys of evidence_packs whose pack holds evidence
HighlightIds(fused, packs) ==
    SelectSeq(Take(TopIds(fused), 20), LAMBDA cid : Len(packs[cid].evidence) > 0)

\* lines 51-56: one agent_thought for each batch of ten after the first
BatchEvents(n) ==
    [b \in 1..(IF n = 0 THEN 0 ELSE (n - 1) \div 10) |->
        Ev("agent_thought", "Evidence Builder", "", "")]

EvidenceAgentNode ==
    /\ pc = "evidence_building"
    /\ LET ids == TopIds(fused_candidates)
           built == [cid \in Range(ids) |->
                        BuildEvidenceForCandidate(cid, ChunksOf(sparse_results, cid),
                                                  ChunksOf(dense_results, cid))]
           hl == HighlightIds(fused_candidates, built)
       IN  \E outcome \in [Range(hl) -> LlmHighlights] :
             /\ evidence_packs' =
                   [cid \in Range(ids) |->
                      IF cid \in Range(hl)
                      THEN [built[cid] EXCEPT
                              !.highlights = HighlightsAfter(built[cid], outcome[cid])]
                      ELSE built[cid]]
             /\ events' = events
                   \o << Ev("agent_start", "Evidence Builder", "4", "") >>
                   \o BatchEvents(Len(ids))
                   \o << Ev("agent_thought", "Evidence Builder", "", "") >>
                   \o [i \in 1..Len(hl) |->
                         Ev("tool_call", "Evidence Builder", "", "generate_highlights")]
                   \o << Ev("stage_complete", "", "evidence_building", "") >>
    /\ current_agent' = "evidence_builder"
    /\ stage_timings' = stage_timings \cup {"evidence_building"}
    /\ pc' = "ranking"
    /\ UNCHANGED <<query_text, parsed, mission_spec, sparse_results, dense_results,
                   fused_candidates, rerank_scores, final_results, match_quality,
                   response>>
    /\ UNCHANGED <<model_loads, search_query_text, norm_input, norm_output>>
    /\ UNCHANGED chunk_matches

---------------------------------------------------------------------------
(* Stage 5, ranker_agent.py *)

\* round(p / q, 0) for q > 0, as an integer: ties go to the even neighbour
RoundDiv(p, q) ==
    LET f == p \div q
        r == p % q
    IN  IF 2 * r > q \/ (2 * r = q /\ f % 2 = 1) THEN f + 1 ELSE f

\* round(rrf_score, 6), in millionths
Round6(frac) == RoundDiv(frac[1] * 1000000, frac[2])

SetMax(S) == CHOOSE m \in S : \A x \in S : x <= m

SetMin(S) == CHOOSE m \in S : \A x \in S : m <= x

FracMax(S) == CHOOSE m \in S : \A x \in S : ~FracLess(m, x)

\* dict.get(cid, 0)
ScoreGet(scores, cid) == IF cid \in DOMAIN scores THEN scores[cid] ELSE 0

\* line 85: the reranker scores that are not 0.0
CeValues(ce_scores) == {ce_scores[c] : c \in DOMAIN ce_scores} \ {0}

\* lines 86-88; a ce_range of 1 stands for the 1.0 of the code
CeMax(ce_scores) == IF CeValues(ce_scores) # {} THEN SetMax(CeValues(ce_scores)) ELSE 1

CeMin(ce_scores) == IF CeValues(ce_scores) # {} THEN SetMin(CeValues(ce_scores)) ELSE 0

CeRange(ce_scores) ==
    IF CeMax(ce_scores) # CeMin(ce_scores)
    THEN CeMax(ce_scores) - CeMin(ce_scores) ELSE 1

\* scores divided by 1.0 instead of by the best rrf_score
RrfMaxOne(top) == <<1, 1>>

\* line 83: max(rrf_scores.values()) if rrf_scores else 1.0
RrfMax(top) ==
    IF Len(top) > 0 THEN FracMax({top[i].rrf_score : i \in 1..Len(top)}) ELSE <<1, 1>>

\* line 93: rrf_norm as the fraction <<num, den>>
RrfNorm(rrf, rrf_max) ==
    IF FracLess(<<0, 1>>, rrf_max)
    THEN <<rrf[1] * rrf_max[2], rrf[2] * rrf_max[1]>> ELSE <<0, 1>>

\* line 95: ce_norm as the fraction <<num, den>>
CeNorm(ce_raw, ce_min, ce_range) ==
    IF ce_range > 0 THEN <<ce_raw - ce_min, ce_range>> ELSE <<0, 1>>

\* lines 97-99: round((W_RRF * rrf_norm + W_CE * ce_norm) * 100, 1), in tenths.
\* The sum x + y of the two weighted fractions is rounded exactly: each is
\* split into its whole part and a remainder over its denominator.
FinalScorePct(rrf_norm, ce_norm) ==
    LET xn == 10 * W_RRF * rrf_norm[1]
        yn == 10 * W_CE * ce_norm[1]
        whole == (xn \div rrf_norm[2]) + (yn \div ce_norm[2])
        rest == (xn % rrf_norm[2]) * ce_norm[2] + (yn % ce_norm[2]) * rrf_norm[2]
        den == rrf_norm[2] * ce_norm[2]
    IN  whole + RoundDiv(rest, den)

\* lines 90-110: the record of one candidate
FinalRecord(candidate, top, ce_scores) ==
    LET ce_raw == ScoreGet(ce_scores, candidate.candidate_id) IN
    [candidate_id |-> candidate.candidate_id,
     final_score |-> FinalScorePct(RrfNorm(candidate.rrf_score, RrfMax(top)),
                                   CeNorm(ce_raw, CeMin(ce_scores), CeRange(ce_scores))),
     rrf_score |-> Round6(candidate.rrf_score),
     rerank_score |-> ce_raw,
     dense_rank |-> candidate.dense_rank,
     sparse_rank |-> candidate.sparse_rank,
     matched_skills |-> candidate.matched_skills,
     matched_count |-> candidate.matched_count]

\* line 113: final_results_raw.sort(key=final_score, reverse=True)
FinalBefore(a, b) == a.final_score > b.final_score

\* the records left in the order of the fused candidates
SortFinalNot(raw) == raw

\* line 113
SortFinal(raw) ==
    StableSort(raw, [i, j \in 1..Len(raw) |-> FinalBefore(raw[i], raw[j])])

\* lines 82-113
FinalResults(top, ce_scores) ==
    SortFinal([i \in 1..Len(top) |-> FinalRecord(top[i], top, ce_scores)])

\* the raw scores cross_encoder_rerank can return for the candidates it is
\* given: one score each (tools.py lines 302-311)
RawScores == -1..MaxRawScore

RankerAgentNode ==
    /\ pc = "ranking"
    /\ LET top == TopCandidates(fused_candidates)
           ids == {top[i].candidate_id : i \in 1..Len(top)}
       IN  \/ /\ Len(top) = 0
              /\ model_loads' = model_loads
              /\ rerank_scores' = <<>>
              /\ final_results' = FinalResults(top, <<>>)
              /\ events' = events
                    \o << Ev("agent_start", "Ranker", "5", ""),
                          Ev("agent_thought", "Ranker", "", ""),
                          Ev("stage_complete", "", "ranking", "") >>
           \/ /\ Len(top) > 0
              /\ model_loads' = NewReranker(model_loads)
              /\ \E scores \in [ids -> RawScores] :
                    /\ rerank_scores' = scores
                    /\ final_results' = FinalResults(top, scores)
              /\ events' = events
                    \o << Ev("agent_start", "Ranker", "5", ""),
                          Ev("tool_call", "Ranker", "", "cross_encoder_rerank"),
                          Ev("tool_result", "Ranker", "", "cross_encoder_rerank"),
                          Ev("agent_thought", "Ranker", "", ""),
                          Ev("stage_complete", "", "ranking", "") >>
           \/ \* the call raises: lines 70-75
              /\ Len(top) > 0
              /\ model_loads' = NewReranker(model_loads)
              /\ rerank_scores' = [c \in ids |-> 0]
              /\ final_results' = FinalResults(top, [c \in ids |-> 0])
              /\ events' = events
                    \o << Ev("agent_start", "Ranker", "5", ""),
                          Ev("tool_call", "Ranker", "", "cross_encoder_rerank"),
                          Ev("agent_thought", "Ranker", "warning", ""),
                          Ev("agent_thought", "Ranker", "", ""),
                          Ev("stage_complete", "", "ranking", "") >>
    /\ current_agent' = "ranker"
    /\ stage_timings' = stage_timings \cup {"ranking"}
    /\ pc' = "assembly"
    /\ UNCHANGED <<query_text, parsed, mission_spec, sparse_results, dense_results,
                   fused_candidates, evidence_packs, match_quality, response>>
    /\ UNCHANGED <<search_query_text, norm_input, norm_output>>
    /\ UNCHANGED chunk_matches

---------------------------------------------------------------------------
(* Strings *)

\* the lower-case letter of each upper-case letter
LowerOf ==
    [c \in {"A", "B", "C", "D", "E", "F", "G", "H", "I", "J", "K", "L", "M",
            "N", "O", "P", "Q", "R", "S", "T", "U", "V", "W", "X", "Y", "Z"} |->
        LET upper == "ABCDEFGHIJKLMNOPQRSTUVWXYZ"
            lower == "abcdefghijklmnopqrstuvwxyz"
            k == CHOOSE k \in 1..26 : SubSeq(upper, k, k) = c
        IN  SubSeq(lower, k, k)]

\* one character, lowered
LowerChar(c) == IF c \in DOMAIN LowerOf THEN LowerOf[c] ELSE c

\* str.lower()
RECURSIVE Lower(_)
Lower(str) ==
    IF Len(str) = 0 THEN ""
    ELSE LowerChar(SubSeq(str, 1, 1)) \o Lower(SubSeq(str, 2, Len(str)))

\* a in b, on strings
In(a, b) == \E i \in 1..(Len(b) - Len(a) + 1) : SubSeq(b, i, i + Len(a) - 1) = a

\* str.split(), the strings of the model holding no whitespace but spaces:
\* the maximal runs of characters that are not spaces
Split(str) ==
    LET isSpace(i) == SubSeq(str, i, i) = " "
        starts == {i \in 1..Len(str) : ~isSpace(i) /\ (i = 1 \/ isSpace(i - 1))}
        stop(i) == CHOOSE j \in i..Len(str) :
                      /\ \A k \in i..j : ~isSpace(k)
                      /\ (j = Len(str) \/ isSpace(j + 1))
    IN  {SubSeq(str, i, stop(i)) : i \in starts}

---------------------------------------------------------------------------
(* resumes_core and fetch_candidate_profiles, tools.py *)

\* resumes_core: the experience entries of each stored resume; candidate 4
\* has no document in resumes_core
resumes_core ==
    (1 :> << [title |-> "Backend Engineer", company |-> "Acme"] >>)
    @@ (2 :> << [title |-> "SEO Specialist", company |-> ""] >>)
    @@ (3 :> << >>)
    @@ (5 :> << [title |-> "", company |-> "Initech Media"] >>)

\* _make_headline
MakeHeadline(experience) ==
    IF Len(experience) = 0 THEN "No title available"
    ELSE LET title == experience[1].title
             company == experience[1].company
         IN  IF title # "" /\ company # "" THEN title \o " at " \o company
             ELSE IF title # "" THEN title
             ELSE IF company # "" THEN company
             ELSE "No title available"

\* fetch_candidate_profiles(candidate_ids), as profile_map: the profiles of
\* the stored resumes among candidate_ids
FetchCandidateProfiles(candidate_ids) ==
    [cid \in Range(candidate_ids) \cap DOMAIN resumes_core |->
        [headline |-> MakeHeadline(resumes_core[cid])]]

---------------------------------------------------------------------------
(* Stage 6, assembly.py *)

DOMAIN_KEYWORDS ==
    <<  <<"digital marketing",
          <<"marketing", "seo", "sem", "ppc", "content", "brand", "advertising", "media", "campaign", "crm", "growth">>>>,
        <<"python development",
          <<"python", "django", "flask", "fastapi", "backend">>>>,
        <<"data engineering",
          <<"data engineer", "etl", "pipeline", "spark", "airflow", "warehouse">>>>,
        <<"frontend development",
          <<"frontend", "react", "angular", "vue", "css", "javascript", "typescript", "ui">>>>,
        <<"backend development",
          <<"backend", "api", "server", "microservice", "nodejs", "java", "go">>>>,
        <<"machine learning",
          <<"machine learning", "ml", "deep learning", "ai", "neural", "nlp", "computer vision", "model">>>>,
        <<"devops",
          <<"devops", "ci/cd", "kubernetes", "docker", "terraform", "infrastructure", "sre">>>>,
        <<"data science",
          <<"data scien", "analytics", "statistics", "jupyter", "pandas", "tableau", "visualization">>>>,
        <<"product management",
          <<"product manager", "roadmap", "stakeholder", "agile", "scrum">>>>,
        <<"cloud engineering",
          <<"cloud", "aws", "azure", "gcp", "infrastructure">>>>,
        <<"mobile development",
          <<"mobile", "ios", "android", "swift", "kotlin", "flutter", "react native">>>>,
        <<"cybersecurity",
          <<"security", "penetration", "vulnerability", "compliance", "soc", "firewall">>>>,
        <<"qa engineering",
          <<"qa", "quality assurance", "testing", "automation test", "selenium">>>>,
        <<"ui/ux design",
          <<"design", "ux", "ui", "figma", "sketch", "wireframe", "prototype", "user research">>>> >>

\* DOMAIN_KEYWORDS.get(domain, [])
KeywordsOf(domain) ==
    IF \E k \in 1..Len(DOMAIN_KEYWORDS) : DOMAIN_KEYWORDS[k][1] = domain
    THEN Range(DOMAIN_KEYWORDS[CHOOSE k \in 1..Len(DOMAIN_KEYWORDS) :
                                  DOMAIN_KEYWORDS[k][1] = domain][2])
    ELSE {}

\* _is_domain_relevant
IsDomainRelevant(headline, core_domain) ==
    IF core_domain = "" THEN TRUE
    ELSE LET headline_lower == Lower(headline)
             domain_lower == Lower(core_domain)
         IN  IF In(domain_lower, headline_lower) THEN TRUE
             ELSE IF KeywordsOf(domain_lower) = {}
                  THEN \E word \in Split(domain_lower) :
                          Len(word) > 2 /\ In(word, headline_lower)
                  ELSE \E kw \in KeywordsOf(domain_lower) : In(kw, headline_lower)

\* mission_spec_dict.get("core_domain", "")
CoreDomainOf(spec) ==
    IF "core_domain" \in DOMAIN spec THEN spec.core_domain ELSE ""

\* profile.get("headline", "No title available")
HeadlineOf(profile_map, cid) ==
    IF cid \in DOMAIN profile_map THEN profile_map[cid].headline
    ELSE "No title available"

EmptyPack(cid) == [candidate_id |-> cid, evidence |-> <<>>, highlights |-> <<>>]

\* _build_result: ShortlistResult(...).model_dump(); the model keeps of the
\* profile the headline (name is no field of ShortlistResult and is dropped;
\* summary, total_yoe and the location are copied like the headline)
BuildResult(r, profile_map, packs) ==
    LET cid == r.candidate_id
        pack == IF cid \in DOMAIN packs THEN packs[cid] ELSE EmptyPack(cid)
    IN  [candidate_id |-> cid,
         final_score |-> r.final_score,
         score_breakdown |-> [rrf_score |-> r.rrf_score,
                              rerank_score |-> r.rerank_score,
                              dense_rank |-> r.dense_rank,
                              sparse_rank |-> r.sparse_rank],
         evidence_pack |-> pack,
         highlights |-> pack.highlights,
         headline |-> HeadlineOf(profile_map, cid),
         matched_skills |-> r.matched_skills]

\* lines 127-131: hard filter 1; final_score is in tenths
BelowThreshold(r) ==
    HARD_FILTER_ENABLED /\ r.final_score < 10 * MIN_RELEVANCE_SCORE

\* no domain filter
OutsideDomainNever(r, profile_map, core_domain) == FALSE

\* lines 133-137: hard filter 2
OutsideDomain(r, profile_map, core_domain) ==
    /\ HARD_FILTER_ENABLED
    /\ core_domain # ""
    /\ ~IsDomainRelevant(HeadlineOf(profile_map, r.candidate_id), core_domain)

\* lines 141-142: the loop stops once MAX_RESULTS results are accepted
ResultsFull(strong_results) == Len(strong_results) >= MAX_RESULTS

\* lines 116-142: pass 1 from record i on; acc holds strong_results and the
\* three counters
RECURSIVE ApplyHardFilters(_, _, _, _, _, _)
ApplyHardFilters(raw, i, profile_map, packs, core_domain, acc) ==
    IF i > Len(raw) THEN acc
    ELSE IF BelowThreshold(raw[i])
         THEN ApplyHardFilters(raw, i + 1, profile_map, packs, core_domain,
                  [acc EXCEPT !.score_filtered_count = @ + 1,
                              !.filtered_count = @ + 1])
    ELSE IF OutsideDomain(raw[i], profile_map, core_domain)
         THEN ApplyHardFilters(raw, i + 1, profile_map, packs, core_domain,
                  [acc EXCEPT !.domain_filtered_count = @ + 1,
                              !.filtered_count = @ + 1])
    ELSE LET next == [acc EXCEPT !.strong_results =
                         Append(@, BuildResult(raw[i], profile_map, packs))]
         IN  IF ResultsFull(next.strong_results) THEN next
             ELSE ApplyHardFilters(raw, i + 1, profile_map, packs, core_domain, next)

\* line 158: WEAK_LIMIT
WeakLimit == Min(10, MAX_RESULTS)

\* every run classified strong
MatchQualityAlwaysStrong(strong_results, raw) == "strong"

\* lines 151-170: match_quality
MatchQuality(strong_results, raw) ==
    IF Len(strong_results) = 0 /\ Len(raw) > 0 THEN "weak"
    ELSE IF Len(raw) = 0 THEN "none"
    ELSE "strong"

\* every record returned
WeakResultsAll(raw, profile_map, packs) ==
    [i \in 1..Len(raw) |-> BuildResult(raw[i], profile_map, packs)]

\* lines 155-160: results of a weak match
WeakResults(raw, profile_map, packs) ==
    [i \in 1..Len(Take(raw, WeakLimit)) |-> BuildResult(raw[i], profile_map, packs)]

\* the fields of MissionSpec, state.py lines 14-23: a keyword that is none of
\* them is ignored by the pydantic constructor
MissionSpecFields ==
    {"must_have", "nice_to_have", "negative_constraints", "min_years", "location",
     "weights", "clarifications", "raw_query"}

\* MissionSpec(**d).model_dump()
MissionSpecModel(d) ==
    [f \in MissionSpecFields |->
        IF f \in DOMAIN d THEN d[f]
        ELSE IF f \in {"min_years", "location"} THEN Null
        ELSE IF f = "raw_query" THEN "" ELSE <<>>]

\* the fields of ShortlistResponse, state.py lines 85-92
ShortlistResponseFields ==
    {"request_id", "mission_spec", "results", "suggested_refinements",
     "stage_timings", "total_candidates_found"}

\* ShortlistResponse(**kwargs).model_dump(): the keywords that are fields
ShortlistResponseModel(kwargs) ==
    [f \in ShortlistResponseFields \cap DOMAIN kwargs |-> kwargs[f]]

AssemblyNode ==
    /\ pc = "assembly"
    /\ LET core_domain == CoreDomainOf(mission_spec)
           profile_map == FetchCandidateProfiles(
                              CandidateIds(Take(final_results, MAX_RESULTS * 2)))
           pass1 == ApplyHardFilters(final_results, 1, profile_map, evidence_packs,
                        core_domain,
                        [strong_results |-> <<>>, filtered_count |-> 0,
                         domain_filtered_count |-> 0, score_filtered_count |-> 0])
           quality == MatchQuality(pass1.strong_results, final_results)
           results == IF quality = "weak"
                      THEN WeakResults(final_results, profile_map, evidence_packs)
                      ELSE pass1.strong_results
           spec == MissionSpecModel(mission_spec)
       IN  /\ match_quality' = quality
           /\ response' = ShortlistResponseModel(
                  [request_id |-> "request",
                   mission_spec |-> spec,
                   results |-> results,
                   suggested_refinements |-> spec.clarifications,
                   stage_timings |-> stage_timings,
                   total_candidates_found |-> Len(final_results),
                   match_quality |-> quality])
           /\ events' = events
                 \o << Ev("agent_start", "Assembly", "6", ""),
                       Ev("tool_call", "Assembly", "", "fetch_candidate_profiles"),
                       Ev("tool_result", "Assembly", "", "fetch_candidate_profiles") >>
                 \o (IF pass1.filtered_count > 0
                     THEN << Ev("agent_thought", "Assembly", "", "") >> ELSE << >>)
                 \o (IF quality # "strong"
                     THEN << Ev("agent_thought", "Assembly", "", "") >> ELSE << >>)
                 \o << Ev("stage_complete", "", "assembly", ""),
                       Ev("result", "", "", "") >>
    /\ current_agent' = "assembly"
    /\ stage_timings' = stage_timings \cup {"assembly"}
    /\ pc' = "END"
    /\ UNCHANGED <<query_text, parsed, mission_spec, sparse_results, dense_results,
                   fused_candidates, evidence_packs, rerank_scores, final_results>>
    /\ UNCHANGED <<model_loads, search_query_text, norm_input, norm_output>>
    /\ UNCHANGED chunk_matches

---------------------------------------------------------------------------
(* The run state: graph.py *)

\* MissionSpec(raw_query=q).model_dump(), state.py lines 14-23
MissionSpecOf(must_have, nice_to_have, min_years, clarifications, raw_query) ==
    [must_have |-> must_have, nice_to_have |-> nice_to_have,
     negative_constraints |-> <<>>, min_years |-> min_years, location |-> Null,
     weights |-> <<>>, clarifications |-> clarifications, raw_query |-> raw_query]

\* a dict that is not set yet
NoDict == <<>>

NoResponse == <<>>

\* create_initial_state, with the stage locals of the model unset
InitialState(q) ==
    /\ query_text = q
    /\ parsed = NoDict
    /\ mission_spec = NoDict
    /\ sparse_results = <<>>
    /\ dense_results = <<>>
    /\ fused_candidates = <<>>
    /\ evidence_packs = <<>>
    /\ rerank_scores = <<>>
    /\ final_results = <<>>
    /\ current_agent = ""
    /\ stage_timings = {}
    /\ match_quality = ""
    /\ response = NoResponse
    /\ events = <<>>
    /\ model_loads = <<>>
    /\ search_query_text = ""
    /\ norm_input = <<>>
    /\ norm_output = <<>>
    /\ chunk_matches = <<>>

---------------------------------------------------------------------------
(* Stage 1, jd_agent.py. The strings of the model hold no whitespace but
   spaces and no digit. *)

\* str.strip()
RECURSIVE Strip(_)
Strip(str) ==
    IF Len(str) > 0 /\ SubSeq(str, 1, 1) = " " THEN Strip(SubSeq(str, 2, Len(str)))
    ELSE IF Len(str) > 0 /\ SubSeq(str, Len(str), Len(str)) = " "
         THEN Strip(SubSeq(str, 1, Len(str) - 1))
    ELSE str

\* str.rstrip(chars)
RECURSIVE RStrip(_, _)
RStrip(str, chars) ==
    IF Len(str) > 0 /\ SubSeq(str, Len(str), Len(str)) \in chars
    THEN RStrip(SubSeq(str, 1, Len(str) - 1), chars)
    ELSE str

\* re.split(r"[<seps>]+", str), from character i on, cur being the piece read
\* so far: the pieces between the maximal runs of separators
RECURSIVE ReSplit(_, _, _, _)
ReSplit(str, seps, i, cur) ==
    IF i > Len(str) THEN <<cur>>
    ELSE LET c == SubSeq(str, i, i)
         IN  IF c \notin seps THEN ReSplit(str, seps, i + 1, cur \o c)
             ELSE IF i > 1 /\ SubSeq(str, i - 1, i - 1) \in seps
                  THEN ReSplit(str, seps, i + 1, cur)
             ELSE <<cur>> \o ReSplit(str, seps, i + 1, "")

SKILL_ALIASES ==
       ("ml" :> "machine learning")
    @@ ("js" :> "javascript")
    @@ ("ts" :> "typescript")
    @@ ("py" :> "python")
    @@ ("c#" :> "csharp")
    @@ ("c sharp" :> "csharp")
    @@ ("c++" :> "cpp")
    @@ ("golang" :> "go")
    @@ ("dl" :> "deep learning")
    @@ ("nlp" :> "natural language processing")
    @@ ("cv" :> "computer vision")
    @@ ("ai" :> "artificial intelligence")
    @@ ("llm" :> "large language models")
    @@ ("llms" :> "large language models")
    @@ ("genai" :> "generative ai")
    @@ ("gen ai" :> "generative ai")
    @@ ("sklearn" :> "scikit-learn")
    @@ ("scikit learn" :> "scikit-learn")
    @@ ("tf" :> "tensorflow")
    @@ ("react.js" :> "react")
    @@ ("reactjs" :> "react")
    @@ ("vue.js" :> "vue")
    @@ ("vuejs" :> "vue")
    @@ ("angular.js" :> "angular")
    @@ ("angularjs" :> "angular")
    @@ ("next.js" :> "nextjs")
    @@ ("node.js" :> "nodejs")
    @@ ("node js" :> "nodejs")
    @@ ("node" :> "nodejs")
    @@ ("express.js" :> "express")
    @@ ("expressjs" :> "express")
    @@ ("fast api" :> "fastapi")
    @@ ("postgres" :> "postgresql")
    @@ ("pg" :> "postgresql")
    @@ ("mongo" :> "mongodb")
    @@ ("amazon web services" :> "aws")
    @@ ("gcp" :> "google cloud platform")
    @@ ("google cloud" :> "google cloud platform")
    @@ ("k8s" :> "kubernetes")
    @@ ("html5" :> "html")
    @@ ("css3" :> "css")

\* normalize_skill
NormalizeSkill(raw) ==
    LET cleaned == RStrip(Lower(Strip(raw)), {".", ",", ";", ":"})
    IN  IF cleaned \in DOMAIN SKILL_ALIASES THEN SKILL_ALIASES[cleaned] ELSE cleaned

\* normalize_skills: the canonical names in order, each once, none empty
RECURSIVE NormalizeSkills(_)
NormalizeSkills(raw_list) ==
    IF Len(raw_list) = 0 THEN <<>>
    ELSE LET front == NormalizeSkills(SubSeq(raw_list, 1, Len(raw_list) - 1))
             canonical == NormalizeSkill(raw_list[Len(raw_list)])
         IN  IF canonical # "" /\ canonical \notin Range(front)
             THEN Append(front, canonical) ELSE front

\* the words that line 140 of _fallback_parse removes
StopWords ==
    {"with", "and", "or", "experience", "in", "of", "the", "a", "an", "for", "to",
     "is", "are", "we", "need", "looking", "senior", "junior", "mid", "level",
     "developer", "engineer", "specialist"}

\* \w of a lowered string
WordChars == {LowerOf[c] : c \in DOMAIN LowerOf} \cup {"_"}

\* re.sub(r"\b(<StopWords>)\b", " ", str), from character i on, cur being the
\* word read so far: every whole word that is a stop word becomes a space
RECURSIVE RemoveStopWords(_, _, _)
RemoveStopWords(str, i, cur) ==
    LET word == IF cur \in StopWords THEN " " ELSE cur
    IN  IF i > Len(str) THEN word
        ELSE LET c == SubSeq(str, i, i)
             IN  IF c \in WordChars THEN RemoveStopWords(str, i + 1, cur \o c)
                 ELSE word \o c \o RemoveStopWords(str, i + 1, "")

\* lines 135-143 of _fallback_parse: the skills of the tokens
FallbackSkills(tokens) ==
    LET cleaned(t) == Strip(RemoveStopWords(Strip(Lower(t)), 1, ""))
        kept == SelectSeq(tokens, LAMBDA t : Len(cleaned(t)) > 1 /\ Len(cleaned(t)) < 50)
    IN  [i \in 1..Len(kept) |-> cleaned(kept[i])]

\* _fallback_parse; no query of the model holds a digit, so years_match is
\* None
FallbackParse(query) ==
    MissionSpecOf(NormalizeSkills(FallbackSkills(ReSplit(query, {",", ";", "."}, 1, ""))),
                  <<>>, Null, <<"keyword extraction">>, query)

\* dict.get(key, default)
Get(d, key, default) == IF key \in DOMAIN d THEN d[key] ELSE default

\* lines 93-101: the MissionSpec built from the parsed reply
ParsedMissionSpec(reply, query) ==
    [must_have |-> Get(reply, "must_have", <<>>),
     nice_to_have |-> Get(reply, "nice_to_have", <<>>),
     negative_constraints |-> Get(reply, "negative_constraints", <<>>),
     min_years |-> Get(reply, "min_years", Null),
     location |-> Get(reply, "location", Null),
     weights |-> <<>>,
     clarifications |-> Get(reply, "clarifications", <<>>),
     raw_query |-> query]

\* what json.loads makes of the content of the LLM's reply: an object, with
\* or without a core_domain
LlmReplies ==
    {[must_have |-> <<"seo">>, clarifications |-> <<"location">>,
      core_domain |-> "digital marketing"],
     [must_have |-> <<"Python">>, nice_to_have |-> <<"ml">>],
     [must_have |-> <<"cobol">>],
     [nice_to_have |-> <<"content">>]}

JdEvent(event, tool) == Ev(event, "JD Understanding", "", tool)

JdAgentNode ==
    /\ pc = "jd_understanding"
    /\ \/ \* lines 53-61: no query
          /\ query_text = ""
          /\ parsed' = parsed
          /\ mission_spec' = MissionSpecOf(<<>>, <<>>, Null, <<>>, "")
          /\ events' = events \o << Ev("agent_start", "JD Understanding", "1", ""),
                                    JdEvent("agent_thought", "") >>
          /\ current_agent' = "jd_understanding"
          /\ stage_timings' = stage_timings \cup {"jd_understanding"}
          /\ pc' = "retrieval"
       \/ \* lines 76-79: llm.ainvoke raises, outside the try
          /\ query_text # ""
          /\ events' = events \o << Ev("agent_start", "JD Understanding", "1", ""),
                                    JdEvent("agent_thought", ""),
                                    JdEvent("tool_call", "openai_parse") >>
          /\ pc' = "raised"
          /\ UNCHANGED <<parsed, mission_spec, current_agent, stage_timings>>
       \/ \* lines 83-101: the reply parses
          /\ query_text # ""
          /\ \E reply \in LlmReplies :
                /\ parsed' = reply
                /\ mission_spec' = ParsedMissionSpec(reply, query_text)
          /\ events' = events \o << Ev("agent_start", "JD Understanding", "1", ""),
                                    JdEvent("agent_thought", ""),
                                    JdEvent("tool_call", "openai_parse"),
                                    JdEvent("mission_spec", ""),
                                    Ev("stage_complete", "", "jd_understanding", "") >>
          /\ current_agent' = "jd_understanding"
          /\ stage_timings' = stage_timings \cup {"jd_understanding"}
          /\ pc' = "retrieval"
       \/ \* lines 102-106: the reply does not parse
          /\ query_text # ""
          /\ parsed' = parsed
          /\ mission_spec' = FallbackParse(query_text)
          /\ events' = events \o << Ev("agent_start", "JD Understanding", "1", ""),
                                    JdEvent("agent_thought", ""),
                                    JdEvent("tool_call", "openai_parse"),
                                    JdEvent("agent_thought", ""),
                                    JdEvent("mission_spec", ""),
                                    Ev("stage_complete", "", "jd_understanding", "") >>
          /\ current_agent' = "jd_understanding"
          /\ stage_timings' = stage_timings \cup {"jd_understanding"}
          /\ pc' = "retrieval"
    /\ UNCHANGED <<query_text, sparse_results, dense_results, fused_candidates,
                   evidence_packs, rerank_scores, final_results, match_quality,
                   response>>
    /\ UNCHANGED <<model_loads, search_query_text, norm_input, norm_output>>
    /\ UNCHANGED chunk_matches

---------------------------------------------------------------------------
(* Stage 2, retriever_agent.py and the search tools of tools.py *)

\* resume_skills: the skill rows of the stored resumes, confidence in percent
resume_skills ==
    {[resumeId |-> 1, skillCanonical |-> "python", confidence |-> 90],
     [resumeId |-> 1, skillCanonical |-> "seo", confidence |-> 50],
     [resumeId |-> 2, skillCanonical |-> "seo", confidence |-> 90],
     [resumeId |-> 2, skillCanonical |-> "content", confidence |-> 80]}

\* the stored chunks whose text a term of a query can match
LexicalDocs == {1, 7}

\* the stored chunks that carry an embedding
EmbeddedDocs == {2, 7}

RECURSIVE SumOf(_, _)
SumOf(S, f) ==
    IF S = {} THEN 0
    ELSE LET x == CHOOSE x \in S : TRUE IN f[x] + SumOf(S \ {x}, f)

\* search_skills_db(skills, "match_any", min_match) as the list of candidate
\* ids; order is the order the aggregation reads the groups in, which the
\* $sort keeps among groups of equal matchedCount and avgConfidence
SearchSkillsDb(skills, min_match, order) ==
    LET normalized == NormalizeSkills(skills)
        threshold == Max(1, min_match)
        rows(cid) == {r \in resume_skills :
                        r.resumeId = cid /\ r.skillCanonical \in Range(normalized)}
        matchedCount(cid) == Cardinality(rows(cid))
        confidenceSum(cid) == SumOf(rows(cid), [r \in rows(cid) |-> r.confidence])
        groups == SelectSeq(order, LAMBDA cid : matchedCount(cid) >= threshold)
        before(a, b) ==
            \/ matchedCount(a) > matchedCount(b)
            \/ /\ matchedCount(a) = matchedCount(b)
               /\ confidenceSum(a) * matchedCount(b) > confidenceSum(b) * matchedCount(a)
    IN  IF Len(normalized) = 0 THEN <<>>
        ELSE Take(StableSort(groups, [i, j \in 1..Len(groups) |->
                                          before(groups[i], groups[j])]), K_POOL)

\* sep.join(strs)
RECURSIVE Join(_, _)
Join(sep, strs) ==
    IF Len(strs) = 0 THEN ""
    ELSE IF Len(strs) = 1 THEN strs[1]
    ELSE strs[1] \o sep \o Join(sep, Tail(strs))

\* lines 51-53: skills_query
SkillsQuery(spec) ==
    LET all_skills == spec.must_have \o spec.nice_to_have
        text == IF spec.raw_query # "" THEN spec.raw_query ELSE Join(", ", all_skills)
    IN  IF Len(all_skills) > 0 THEN "Skills: " \o Join("; ", all_skills) \o "."
        ELSE text

\* lexical_search_chunks line 123: terms
Terms(text) == SelectSeq(ReSplit(text, {",", ";", " "}, 1, ""), LAMBDA t : Len(t) > 1)

\* a search that reads every stored chunk whatever candidate_ids holds
Ungated(docs, candidate_ids) == docs

\* the stored chunks of docs that a search restricted to candidate_ids reads
Gated(docs, candidate_ids) ==
    IF Len(candidate_ids) = 0 THEN docs
    ELSE {d \in docs : resume_chunks[d].resumeId \in Range(Take(candidate_ids, K_POOL))}

\* lexical_search_chunks(text, candidate_ids, limit): the hit lists it can
\* return, the chunks that match and their scores depending on the texts
LexicalSearchChunks(text, candidate_ids, limit) ==
    IF Len(Terms(text)) = 0 THEN {<<>>}
    ELSE {Take(hits, limit) : hits \in HitLists(Gated(LexicalDocs, candidate_ids), "sparse")}

\* vector_search_chunks(text, candidate_ids, limit): every chunk read that
\* carries an embedding, in the order of the similarities
VectorSearchChunks(text, candidate_ids, limit) ==
    {[i \in 1..Len(Take(q, limit)) |-> Hit(resume_chunks[q[i]], i, "dense")] :
        q \in Orders(Gated(EmbeddedDocs, candidate_ids))}

\* the events of Retrieval written under the name of the Ranker
RetrieverEventAsRanker(event, tool) == Ev(event, "Ranker", "", tool)

RetrieverEvent(event, tool) == Ev(event, "Retriever", "", tool)

RetrieverAgentNode ==
    /\ pc = "retrieval"
    /\ search_query_text' = SkillsQuery(mission_spec)
    /\ LET must_have == mission_spec.must_have
           skills_query == SkillsQuery(mission_spec)
           min_match == Max(1, Len(must_have) \div 2)
           gating == IF Len(must_have) > 0
                     THEN << RetrieverEvent("tool_call", "search_skills_db"),
                             RetrieverEvent("tool_result", "search_skills_db") >>
                     ELSE << >>
           searches == << RetrieverEvent("agent_thought", ""),
                          RetrieverEvent("tool_call", "lexical_search_chunks"),
                          RetrieverEvent("tool_result", "lexical_search_chunks"),
                          RetrieverEvent("tool_call", "vector_search_chunks"),
                          RetrieverEvent("tool_result", "vector_search_chunks") >>
       IN  \E order \in Orders({r.resumeId : r \in resume_skills}) :
             LET candidate_ids == IF Len(must_have) > 0
                                  THEN SearchSkillsDb(must_have, min_match, order)
                                  ELSE <<>>
             IN  \/ \* both searches return
                    /\ sparse_results' \in
                          LexicalSearchChunks(skills_query, candidate_ids, K_SPARSE)
                    /\ dense_results' \in
                          VectorSearchChunks(skills_query, candidate_ids, K_DENSE)
                    /\ model_loads' = NewEmbedder(model_loads)
                    /\ events' = events
                          \o << Ev("agent_start", "Retriever", "2", "") >>
                          \o gating \o searches
                          \o << Ev("stage_complete", "", "retrieval", "") >>
                    /\ current_agent' = "retriever"
                    /\ stage_timings' = stage_timings \cup {"retrieval"}
                    /\ pc' = "fusion"
                 \/ \* lines 85-89: lexical_search_chunks raises
                    /\ events' = events
                          \o << Ev("agent_start", "Retriever", "2", "") >>
                          \o gating \o Take(searches, 2)
                    /\ pc' = "raised"
                    /\ UNCHANGED <<sparse_results, dense_results, current_agent,
                                   stage_timings, model_loads>>
                 \/ \* lines 97-101: vector_search_chunks raises, in the
                    \* load of the model or after it
                    /\ events' = events
                          \o << Ev("agent_start", "Retriever", "2", "") >>
                          \o gating \o Take(searches, 4)
                    /\ model_loads' \in {model_loads, NewEmbedder(model_loads)}
                    /\ pc' = "raised"
                    /\ UNCHANGED <<sparse_results, dense_results, current_agent,
                                   stage_timings>>
    /\ UNCHANGED <<query_text, parsed, mission_spec, fused_candidates, evidence_packs,
                   rerank_scores, final_results, match_quality, response>>
    /\ UNCHANGED <<norm_input, norm_output>>
    /\ UNCHANGED chunk_matches

---------------------------------------------------------------------------
(* The stream: streaming.py *)

\* a stream that sends done after the loop whether or not a stage raised
StreamDoneAlways ==
    /\ pc \in {"END", "raised"}
    /\ events' = Append(events, Ev("done", "", "", ""))
    /\ pc' = "done"
    /\ UNCHANGED <<query_text, parsed, mission_spec, sparse_results, dense_results,
                   fused_candidates, evidence_packs, rerank_scores, final_results,
                   current_agent, stage_timings, match_quality, response>>
    /\ UNCHANGED <<model_loads, search_query_text, norm_input, norm_output>>
    /\ UNCHANGED chunk_matches

\* lines 61-65: the pipeline is over, the stream ends with done
StreamDone ==
    /\ pc = "END"
    /\ events' = Append(events, Ev("done", "", "", ""))
    /\ pc' = "done"
    /\ UNCHANGED <<query_text, parsed, mission_spec, sparse_results, dense_results,
                   fused_candidates, evidence_packs, rerank_scores, final_results,
                   current_agent, stage_timings, match_quality, response>>
    /\ UNCHANGED <<model_loads, search_query_text, norm_input, norm_output>>
    /\ UNCHANGED chunk_matches

\* lines 67-72: a stage raised, the stream ends with error
StreamError ==
    /\ pc = "raised"
    /\ events' = Append(events, Ev("error", "", "pipeline", ""))
    /\ pc' = "failed"
    /\ UNCHANGED <<query_text, parsed, mission_spec, sparse_results, dense_results,
                   fused_candidates, evidence_packs, rerank_scores, final_results,
                   current_agent, stage_timings, match_quality, response>>
    /\ UNCHANGED <<model_loads, search_query_text, norm_input, norm_output>>
    /\ UNCHANGED chunk_matches

---------------------------------------------------------------------------
(* The pipeline: graph.py lines 21-42 *)

Queries == {"", "Senior SEO specialist, content"}

Init ==
    /\ pc = "jd_understanding"
    /\ \E q \in Queries : InitialState(q)

Next ==
    \/ JdAgentNode
    \/ RetrieverAgentNode
    \/ FusionNode
    \/ EvidenceAgentNode
    \/ RankerAgentNode
    \/ AssemblyNode
    \/ StreamDone
    \/ StreamError

Spec == Init /\ [][Next]_vars

---------------------------------------------------------------------------
(* Fusion on its own: the stage applied to every pair of hit lists, the
   lexical one over chunks of candidates 1 (two chunks), 2 and 3, the vector
   one over chunks of candidates 2, 3, 4 and 5 *)

FusionSparseDocs == {1, 2, 7, 8}

FusionDenseDocs == {7, 8, 9, 10}

InitFusion ==
    /\ pc = "fusion"
    /\ query_text = "seo"
    /\ parsed = NoDict
    /\ mission_spec = MissionSpecOf(<<"seo">>, <<>>, Null, <<>>, "seo")
    /\ sparse_results \in HitLists(FusionSparseDocs, "sparse")
    /\ dense_results \in HitLists(FusionDenseDocs, "dense")
    /\ fused_candidates = <<>>
    /\ evidence_packs = <<>>
    /\ rerank_scores = <<>>
    /\ final_results = <<>>
    /\ current_agent = "retriever"
    /\ stage_timings = {"jd_understanding", "retrieval"}
    /\ match_quality = ""
    /\ response = NoResponse
    /\ events = <<>>
    /\ model_loads = <<"embedder">>
    /\ search_query_text = SkillsQuery(mission_spec)
    /\ norm_input = <<>>
    /\ norm_output = <<>>
    /\ chunk_matches = <<>>

NextFusion == FusionNode

SpecFusion == InitFusion /\ [][NextFusion]_vars

---------------------------------------------------------------------------
(* Evidence building on its own: the stage applied to the fused candidates
   of every pair of hit lists over the six chunks of candidate 1 and the
   chunk of candidate 2 *)

EvidenceSparseDocs == {1, 2, 3, 5, 6}

EvidenceDenseDocs == {2, 3, 4, 7}

InitEvidence ==
    /\ pc = "evidence_building"
    /\ query_text = "seo"
    /\ parsed = NoDict
    /\ mission_spec = MissionSpecOf(<<"seo">>, <<>>, Null, <<>>, "seo")
    /\ sparse_results \in HitLists(EvidenceSparseDocs, "sparse")
    /\ dense_results \in HitLists(EvidenceDenseDocs, "dense")
    /\ fused_candidates \in {Fuse(sparse_results, dense_results, o) :
                                o \in Orders(AllIds(sparse_results, dense_results))}
    /\ evidence_packs = <<>>
    /\ rerank_scores = <<>>
    /\ final_results = <<>>
    /\ current_agent = "fusion"
    /\ stage_timings = {"jd_understanding", "retrieval", "fusion"}
    /\ match_quality = ""
    /\ response = NoResponse
    /\ events = <<>>
    /\ model_loads = <<"embedder">>
    /\ search_query_text = SkillsQuery(mission_spec)
    /\ norm_input = <<>>
    /\ norm_output = <<>>
    /\ chunk_matches = <<>>

NextEvidence == EvidenceAgentNode

SpecEvidence == InitEvidence /\ [][NextEvidence]_vars

---------------------------------------------------------------------------
(* Ranking on its own: the stage applied to the run state that stages 3 and
   4 leave for every pair of hit lists over chunks of candidates 1, 2, 3
   (lexical) and 2, 3, 4 (vector), the highlights being the fallback ones *)

RankingSparseDocs == {1, 7, 8}

RankingDenseDocs == {7, 8, 9}

\* evidence_packs after stage 4 when every highlight call raised
PacksOf(sparse, dense, fused) ==
    [cid \in Range(TopIds(fused)) |->
        BuildEvidenceForCandidate(cid, ChunksOf(sparse, cid), ChunksOf(dense, cid))]

InitRanking ==
    /\ pc = "ranking"
    /\ query_text = "seo"
    /\ parsed = NoDict
    /\ mission_spec = MissionSpecOf(<<"seo">>, <<>>, Null, <<>>, "seo")
    /\ sparse_results \in HitLists(RankingSparseDocs, "sparse")
    /\ dense_results \in HitLists(RankingDenseDocs, "dense")
    /\ fused_candidates \in {Fuse(sparse_results, dense_results, o) :
                                o \in Orders(AllIds(sparse_results, dense_results))}
    /\ evidence_packs = PacksOf(sparse_results, dense_results, fused_candidates)
    /\ rerank_scores = <<>>
    /\ final_results = <<>>
    /\ current_agent = "evidence_builder"
    /\ stage_timings = {"jd_understanding", "retrieval", "fusion", "evidence_building"}
    /\ match_quality = ""
    /\ response = NoResponse
    /\ events = <<>>
    /\ model_loads = <<"embedder">>
    /\ search_query_text = SkillsQuery(mission_spec)
    /\ norm_input = <<>>
    /\ norm_output = <<>>
    /\ chunk_matches = <<>>

NextRanking == RankerAgentNode

SpecRanking == InitRanking /\ [][NextRanking]_vars

---------------------------------------------------------------------------
(* Ranking and assembly on their own: the two stages applied to the run
   state that stages 3 and 4 leave for every pair of hit lists over chunks of
   candidates 1, 2, 3 (lexical) and 2 (vector). The handler assembly_node
   reads core_domain from the mission_spec dict of the run state: here the
   dict may carry one, of the lexicon or not. *)

AssemblySparseDocs == {1, 7, 8}

AssemblyDenseDocs == {7}

CoreDomains == {"digital marketing", "Backend Systems"}

MissionSpecs ==
    {MissionSpecOf(<<"seo">>, <<>>, Null, <<>>, "seo")}
    \cup {[core_domain |-> cd] @@ MissionSpecOf(<<"seo">>, <<>>, Null, <<>>, "seo") :
             cd \in CoreDomains}

InitAssembly ==
    /\ pc = "ranking"
    /\ query_text = "seo"
    /\ parsed = NoDict
    /\ mission_spec \in MissionSpecs
    /\ sparse_results \in HitLists(AssemblySparseDocs, "sparse")
    /\ dense_results \in HitLists(AssemblyDenseDocs, "dense")
    /\ fused_candidates \in {Fuse(sparse_results, dense_results, o) :
                                o \in Orders(AllIds(sparse_results, dense_results))}
    /\ evidence_packs = PacksOf(sparse_results, dense_results, fused_candidates)
    /\ rerank_scores = <<>>
    /\ final_results = <<>>
    /\ current_agent = "evidence_builder"
    /\ stage_timings = {"jd_understanding", "retrieval", "fusion", "evidence_building"}
    /\ match_quality = ""
    /\ response = NoResponse
    /\ events = <<>>
    /\ model_loads = <<"embedder">>
    /\ search_query_text = SkillsQuery(mission_spec)
    /\ norm_input = <<>>
    /\ norm_output = <<>>
    /\ chunk_matches = <<>>

NextAssembly == RankerAgentNode \/ AssemblyNode

SpecAssembly == InitAssembly /\ [][NextAssembly]_vars

---------------------------------------------------------------------------
(* Properties *)

RECURSIVE SumLen(_)
SumLen(evidence) ==
    IF Len(evidence) = 0 THEN 0
    ELSE evidence[1].text_snippet.len + SumLen(Tail(evidence))

\* C1: after the Ranking stage every record of final_results has
\* 0 <= final_score <= 100 (0..1000 tenths), whatever the reranker returned.
C1_FinalScoreInRange ==
    \A i \in 1..Len(final_results) :
        /\ 0 <= final_results[i].final_score
        /\ final_results[i].final_score <= 1000

\* C2: every evidence pack holds at most MAX_CHUNKS_PER_CANDIDATE items and
\* the lengths of its stored snippets, the ellipsis of a truncated one
\* included, sum to at most MAX_TOTAL_CHARS_PER_CANDIDATE.
C2_EvidenceBounded ==
    \A cid \in DOMAIN evidence_packs :
        /\ Len(evidence_packs[cid].evidence) <= MAX_CHUNKS_PER_CANDIDATE
        /\ SumLen(evidence_packs[cid].evidence) <= MAX_TOTAL_CHARS_PER_CANDIDATE

\* C3: after the Fusion stage fused_candidates has at most K_POOL entries, no
\* candidate id twice, every entry has a dense_rank or a sparse_rank, and the
\* list is non-increasing in rrf_score.
C3_FusionShape ==
    pc = "evidence_building" =>
        /\ Len(fused_candidates) <= K_POOL
        /\ NoDuplicates(CandidateIds(fused_candidates))
        /\ \A i \in 1..Len(fused_candidates) :
              \/ fused_candidates[i].dense_rank # Null
              \/ fused_candidates[i].sparse_rank # Null
        /\ \A i, j \in 1..Len(fused_candidates) :
              i < j => ~FracLess(fused_candidates[i].rrf_score,
                                 fused_candidates[j].rrf_score)

\* the fusion dropped a candidate at the K_POOL cap and kept one that only
\* the lexical list holds
C3_Witness ==
    /\ pc = "evidence_building"
    /\ Len(fused_candidates) = K_POOL
    /\ Cardinality(AllIds(sparse_results, dense_results)) > K_POOL
    /\ \E i \in 1..Len(fused_candidates) : fused_candidates[i].dense_rank = Null
    /\ \E i \in 1..Len(fused_candidates) :
          /\ fused_candidates[i].dense_rank # Null
          /\ fused_candidates[i].sparse_rank # Null

\* the ascending enumeration of a set of candidate ids
Ascending(S) == CHOOSE o \in Orders(S) : \A i, j \in 1..Len(o) : i < j => o[i] < o[j]

\* C4: fusion is deterministic: its output is fixed by sparse_results and
\* dense_results, candidates of equal rrf_score in ascending candidate id.
C4_FusionDeterministic ==
    pc = "evidence_building" =>
        /\ \A i, j \in 1..Len(fused_candidates) :
              (i < j /\ FracEq(fused_candidates[i].rrf_score,
                               fused_candidates[j].rrf_score))
                 => fused_candidates[i].candidate_id < fused_candidates[j].candidate_id
        /\ fused_candidates =
              Fuse(sparse_results, dense_results,
                   Ascending(AllIds(sparse_results, dense_results)))

\* C5: after the Ranking stage final_results holds exactly one record for
\* each of the first K_RERANK fused candidates and is non-increasing in
\* final_score.
C5_FinalResultsShape ==
    pc = "assembly" =>
        /\ Len(final_results) = Min(Len(fused_candidates), K_RERANK)
        /\ NoDuplicates(CandidateIds(final_results))
        /\ Range(CandidateIds(final_results))
              = {fused_candidates[i].candidate_id :
                    i \in 1..Min(Len(fused_candidates), K_RERANK)}
        /\ \A i, j \in 1..Len(final_results) :
              i < j => final_results[i].final_score >= final_results[j].final_score

\* the ranking left a fused candidate out and moved the others
C5_Witness ==
    /\ pc = "assembly"
    /\ Len(fused_candidates) > K_RERANK
    /\ Len(final_results) = K_RERANK
    /\ CandidateIds(final_results) # CandidateIds(Take(fused_candidates, K_RERANK))
    /\ final_results[1].final_score > final_results[K_RERANK].final_score

\* the headline Assembly holds for a candidate: the one of its fetched
\* profile, "No title available" without one
AssemblyHeadline(cid) ==
    HeadlineOf(FetchCandidateProfiles(CandidateIds(Take(final_results, 2 * MAX_RESULTS))),
               cid)

\* a record of final_results survives the hard filters: they are disabled, or
\* its score reaches the threshold and its headline matches the core_domain
\* that Assembly reads, if one is set
Survives(r) ==
    HARD_FILTER_ENABLED =>
        /\ r.final_score >= 10 * MIN_RELEVANCE_SCORE
        /\ \/ CoreDomainOf(mission_spec) = ""
           \/ IsDomainRelevant(AssemblyHeadline(r.candidate_id), CoreDomainOf(mission_spec))

Survivors == SelectSeq(final_results, Survives)

\* C6: Assembly classifies the run into exactly one match quality: strong iff
\* a record of final_results survives the hard filters, weak iff none does
\* and final_results is not empty, none iff final_results is empty.
C6_MatchQualityClassifies ==
    pc = "END" =>
        /\ match_quality \in {"strong", "weak", "none"}
        /\ (match_quality = "strong") <=> (Len(Survivors) > 0)
        /\ (match_quality = "weak") <=> (Len(Survivors) = 0 /\ Len(final_results) > 0)
        /\ (match_quality = "none") <=> (Len(final_results) = 0)

\* a run classified strong although its best record was rejected for its
\* domain and its last for its score
C6_Witness ==
    /\ pc = "END"
    /\ match_quality = "strong"
    /\ Len(final_results) = 3
    /\ final_results[1].final_score >= 10 * MIN_RELEVANCE_SCORE
    /\ ~Survives(final_results[1])
    /\ final_results[3].final_score < 10 * MIN_RELEVANCE_SCORE

\* C7: the response of the result event has a match_quality field, one of
\* strong, weak, none, equal to the classification Assembly computed.
C7_ResponseCarriesMatchQuality ==
    pc \in {"END", "done"} =>
        /\ "match_quality" \in DOMAIN response
        /\ response.match_quality \in {"strong", "weak", "none"}
        /\ response.match_quality = match_quality

\* C8: in the response, strong gives at most MAX_RESULTS results; weak gives at
\* most min(10, MAX_RESULTS) results and every record of final_results was
\* rejected by the threshold or by the domain filter; none gives no result.
C8_ResultsBounded ==
    pc = "END" =>
        /\ match_quality = "strong" => Len(response.results) <= MAX_RESULTS
        /\ match_quality = "weak" =>
              /\ Len(response.results) <= Min(10, MAX_RESULTS)
              /\ \A i \in 1..Len(final_results) : ~Survives(final_results[i])
        /\ match_quality = "none" => response.results = <<>>

\* a weak run with more rejected records than it may return, one rejected for
\* its domain
C8_Witness ==
    /\ pc = "END"
    /\ match_quality = "weak"
    /\ Len(final_results) > Min(10, MAX_RESULTS)
    /\ Len(response.results) = Min(10, MAX_RESULTS)
    /\ \E i \in 1..Len(final_results) :
          final_results[i].final_score >= 10 * MIN_RELEVANCE_SCORE

\* C9: with the hard filters enabled and a strong match, every returned result
\* has final_score >= MIN_RELEVANCE_SCORE and, if a core_domain is set, a
\* headline that matches it, and the results are the first survivors of
\* final_results, at most MAX_RESULTS of them, in order.
C9_StrongResultsAreFirstSurvivors ==
    (pc = "END" /\ HARD_FILTER_ENABLED /\ match_quality = "strong") =>
        /\ \A i \in 1..Len(response.results) :
              /\ response.results[i].final_score >= 10 * MIN_RELEVANCE_SCORE
              /\ CoreDomainOf(mission_spec) # "" =>
                    IsDomainRelevant(response.results[i].headline,
                                     CoreDomainOf(mission_spec))
        /\ CandidateIds(response.results) = CandidateIds(Take(Survivors, MAX_RESULTS))

\* a strong run with a core_domain whose best record was dropped for its
\* domain and whose result is a lower record
C9_Witness ==
    /\ pc = "END"
    /\ match_quality = "strong"
    /\ CoreDomainOf(mission_spec) # ""
    /\ Len(final_results) > 1
    /\ final_results[1].final_score >= 10 * MIN_RELEVANCE_SCORE
    /\ response.results[1].candidate_id # final_results[1].candidate_id

\* C10: a core_domain of the parsed reply of Query Understanding is in the
\* mission_spec of the run state, unchanged, and no strong result has a
\* headline that does not match it.
C10_CoreDomainReachesAssembly ==
    (pc \notin {"jd_understanding", "raised", "failed"} /\ "core_domain" \in DOMAIN parsed) =>
        /\ "core_domain" \in DOMAIN mission_spec
        /\ mission_spec.core_domain = parsed.core_domain
        /\ (pc \in {"END", "done"} /\ match_quality = "strong") =>
              \A i \in 1..Len(response.results) :
                 IsDomainRelevant(response.results[i].headline, parsed.core_domain)

\* the events of the stream that an agent of the pipeline wrote before
\* Retrieval started
Stage1Events ==
    LET starts == {i \in 1..Len(events) :
                      events[i] = Ev("agent_start", "Retriever", "2", "")}
    IN  IF starts = {} THEN events ELSE Take(events, SetMin(starts) - 1)

\* C11: once Query Understanding has run on a non-empty query, the run state
\* holds a MissionSpec of that query, the pipeline is at Retrieval or later,
\* and the stream has no error event that follows stage 1 directly.
C11_QueryUnderstandingNeverFatal ==
    (query_text # "" /\ pc # "jd_understanding") =>
        /\ "raw_query" \in DOMAIN mission_spec
        /\ pc \notin {"raised", "failed"} \/ "retrieval" \in stage_timings
              \/ \E i \in 1..Len(events) : events[i].agent = "Retriever"
        /\ \A i \in 1..Len(Stage1Events) : Stage1Events[i].event # "error"

\* a sub-search of Retrieval was called and wrote no tool_result: it raised
SearchFailed(tool) ==
    /\ \E i \in 1..Len(events) : events[i] = RetrieverEvent("tool_call", tool)
    /\ \A i \in 1..Len(events) : events[i] # RetrieverEvent("tool_result", tool)

\* C12: when one of lexical_search_chunks and vector_search_chunks raised and
\* the other did not, Retrieval completes with both hit lists written and the
\* run goes on to Fusion instead of ending with an error.
C12_OneFailedSearchDegrades ==
    (pc # "retrieval"
        /\ SearchFailed("lexical_search_chunks") # SearchFailed("vector_search_chunks")) =>
        /\ pc \notin {"raised", "failed"}
        /\ "retrieval" \in stage_timings
        /\ \E i \in 1..Len(events) : events[i] = Ev("stage_complete", "", "retrieval", "")

\* the call of cross_encoder_rerank raised: the Ranker wrote its tool_call and
\* no tool_result
CrossEncoderFailed ==
    /\ \E i \in 1..Len(events) :
          events[i] = Ev("tool_call", "Ranker", "", "cross_encoder_rerank")
    /\ \A i \in 1..Len(events) :
          events[i] # Ev("tool_result", "Ranker", "", "cross_encoder_rerank")

\* 100 * W_RRF * rrf_score / rrf_max rounded to one decimal, in tenths, of the
\* fused candidate cid among the top K_RERANK fused candidates
RrfOnlyScore(cid) ==
    LET top == Take(fused_candidates, K_RERANK)
        own == (CHOOSE i \in 1..Len(top) : top[i].candidate_id = cid)
        best == FracMax({top[i].rrf_score : i \in 1..Len(top)})
    IN  RoundDiv(10 * W_RRF * top[own].rrf_score[1] * best[2],
                 top[own].rrf_score[2] * best[1])

\* C13: after a failed cross-encoder call every reranked candidate has
\* rerank_score 0 and a final_score of 100 * W_RRF * rrf_score / rrf_max, the
\* Ranker wrote a warning, the run does not end with an error, and a finished
\* Assembly has emitted its result event.
C13_CrossEncoderFailureDegrades ==
    (CrossEncoderFailed /\ pc # "ranking") =>
        /\ \A c \in DOMAIN rerank_scores : rerank_scores[c] = 0
        /\ Len(final_results) = Len(Take(fused_candidates, K_RERANK))
        /\ \A i \in 1..Len(final_results) :
              /\ final_results[i].rerank_score = 0
              /\ final_results[i].final_score = RrfOnlyScore(final_results[i].candidate_id)
        /\ \E i \in 1..Len(events) : events[i] = Ev("agent_thought", "Ranker", "warning", "")
        /\ pc \in {"assembly", "END", "done"}
        /\ pc \in {"END", "done"} =>
              \E i \in 1..Len(events) : events[i] = Ev("result", "", "", "")

\* a finished run whose cross-encoder call failed and whose two ranked
\* candidates have different rrf scores
C13_Witness ==
    /\ pc = "done"
    /\ CrossEncoderFailed
    /\ Len(final_results) > 1
    /\ final_results[1].final_score # final_results[2].final_score
    /\ \E i \in 1..Len(events) : events[i] = Ev("result", "", "", "")

\* the number of the stage that wrote an event, 0 for the events of the stream
StageOf(e) ==
    CASE e.agent = "JD Understanding" \/ e.stage = "jd_understanding" -> 1
      [] e.agent = "Retriever" \/ e.stage = "retrieval" -> 2
      [] e.agent = "Fusion" \/ e.stage = "fusion" -> 3
      [] e.agent = "Evidence Builder" \/ e.stage = "evidence_building" -> 4
      [] e.agent = "Ranker" \/ e.stage = "ranking" -> 5
      [] e.agent = "Assembly" \/ e.stage = "assembly" \/ e.event = "result" -> 6
      [] OTHER -> 0

\* C14: in the stream of a run the events of a stage all precede the events
\* of the next stages, and within a stage agent_start precedes every
\* tool_call and tool_result, which precede the stage_complete of the stage.
C14_EventsInStageOrder ==
    \A i, j \in 1..Len(events) :
        (i < j /\ StageOf(events[i]) # 0 /\ StageOf(events[j]) # 0) =>
            /\ StageOf(events[i]) <= StageOf(events[j])
            /\ StageOf(events[i]) = StageOf(events[j]) =>
                  /\ events[j].event # "agent_start"
                  /\ events[i].event # "stage_complete"
                        \/ events[j].event \notin {"tool_call", "tool_result"}

\* a finished run with tool events in four stages and all six stages complete
C14_Witness ==
    /\ pc = "done"
    /\ \A n \in 1..6 : \E i \in 1..Len(events) :
          StageOf(events[i]) = n /\ events[i].event = "stage_complete"
    /\ \A n \in {1, 2, 5, 6} : \E i \in 1..Len(events) :
          StageOf(events[i]) = n /\ events[i].event = "tool_call"

\* the number of events of a stage with a given name in the stream
CountOf(n, event) ==
    Cardinality({i \in 1..Len(events) :
                    StageOf(events[i]) = n /\ events[i].event = event})

\* C15: in a run that ended with done, each of the six stages wrote exactly
\* one agent_start and exactly one stage_complete, and Query Understanding
\* wrote a mission_spec event for the MissionSpec of the run state.
C15_EveryStageStartsAndCompletes ==
    pc = "done" =>
        /\ \A n \in 1..6 : CountOf(n, "agent_start") = 1 /\ CountOf(n, "stage_complete") = 1
        /\ CountOf(1, "mission_spec") = 1
        /\ "raw_query" \in DOMAIN mission_spec

\* the positions of the events of a given name in the stream
PositionsOf(event) == {i \in 1..Len(events) : events[i].event = event}

\* C16: a stream has at most one terminal event, done or error, and it is
\* the last event; a stream with done has exactly one result event, before
\* it; an error event carries the stage "pipeline"; and a run that is over
\* has its terminal event.
C16_OneTerminalEvent ==
    /\ Cardinality(PositionsOf("done") \cup PositionsOf("error")) <= 1
    /\ PositionsOf("done") \cup PositionsOf("error") \subseteq {Len(events)}
    /\ PositionsOf("done") # {} => Cardinality(PositionsOf("result")) = 1
    /\ \A i \in PositionsOf("error") : events[i].stage = "pipeline"
    /\ pc = "done" => PositionsOf("done") # {}
    /\ pc = "failed" => PositionsOf("error") # {}
    /\ (PositionsOf("done") \cup PositionsOf("error") # {}) => pc \in {"done", "failed"}

\* a stream that ended with done after its result event
C16_Witness ==
    /\ pc = "done"
    /\ PositionsOf("done") = {Len(events)}
    /\ PositionsOf("result") = {Len(events) - 1}

\* the tool_call at position i of the stream is answered: a tool_result of
\* the same agent and tool, or an agent_thought of the agent (a warning is
\* one), follows it before the next stage_complete
Answered(i) ==
    \E j \in (i + 1)..Len(events) :
        /\ \/ events[j] = Ev("tool_result", events[i].agent, "", events[i].tool)
           \/ events[j].event = "agent_thought" /\ events[j].agent = events[i].agent
        /\ \A k \in (i + 1)..(j - 1) : events[k].event # "stage_complete"

\* C17: in a run that ended with done every tool_call is answered within its
\* stage by a tool_result of the same tool or by a warning, and every
\* tool_result has a tool_call of the same tool before it that it answers.
C17_ToolCallsAreBracketed ==
    pc = "done" =>
        /\ \A i \in PositionsOf("tool_call") : Answered(i)
        /\ \A j \in PositionsOf("tool_result") :
              Cardinality({i \in 1..(j - 1) : events[i].event = "tool_call"
                                               /\ events[i].tool = events[j].tool})
                 > Cardinality({k \in 1..(j - 1) : events[k].event = "tool_result"
                                                    /\ events[k].tool = events[j].tool})

---------------------------------------------------------------------------
(* The model handles of tools.py over the requests of one process: the
   tools are plain functions that the nodes call on the event loop, so the
   calls of the requests of a process run one after the other, in any order *)

MaxLoads == 6

\* tools.py lines 174-180: a request calls vector_search_chunks, which
\* builds an Embedder of its own
VectorSearchChunksCall ==
    /\ Len(model_loads) < MaxLoads
    /\ model_loads' = NewEmbedder(model_loads)
    /\ UNCHANGED <<pc, query_text, parsed, mission_spec, sparse_results, dense_results,
                   fused_candidates, evidence_packs, rerank_scores, final_results,
                   current_agent, stage_timings, match_quality, response, events,
                   search_query_text, norm_input, norm_output>>
    /\ UNCHANGED chunk_matches

\* tools.py lines 294-302: a request calls cross_encoder_rerank on a list of
\* candidates that is not empty, which builds a Reranker of its own
CrossEncoderRerankCall ==
    /\ Len(model_loads) < MaxLoads
    /\ model_loads' = NewReranker(model_loads)
    /\ UNCHANGED <<pc, query_text, parsed, mission_spec, sparse_results, dense_results,
                   fused_candidates, evidence_packs, rerank_scores, final_results,
                   current_agent, stage_timings, match_quality, response, events,
                   search_query_text, norm_input, norm_output>>
    /\ UNCHANGED chunk_matches

InitHandles ==
    /\ pc = "jd_understanding"
    /\ InitialState("")

NextHandles == VectorSearchChunksCall \/ CrossEncoderRerankCall

SpecHandles == InitHandles /\ [][NextHandles]_vars

\* the number of times the process has loaded a model
LoadsOf(model) == Cardinality({i \in 1..Len(model_loads) : model_loads[i] = model})

\* C18: over the calls of the requests of a process the embedding model is
\* loaded at most once and the reranker model is loaded at most once.
C18_ModelsLoadedOnce ==
    LoadsOf("embedder") <= 1 /\ LoadsOf("reranker") <= 1

---------------------------------------------------------------------------
(* normalize_skills of tools.py on its own: the function applied to every
   list of at most MaxSkills raw skills, and then to its own result *)

MaxSkills == 2

\* raw skills: canonical names, alias keys, upper case, spaces around and
\* inside, punctuation at the end, and the empty string
RawSkills ==
    {"python", "python .", " ML ", "js.", "Node.js", "node js", "C++;", "go,:",
     " . ", ""}

\* tools.py lines 53-61: normalize_skills(raw_list)
NormalizeSkillsCall ==
    /\ pc = "normalize"
    /\ norm_output' = NormalizeSkills(norm_input)
    /\ pc' = "normalized"
    /\ UNCHANGED <<query_text, parsed, mission_spec, sparse_results, dense_results,
                   fused_candidates, evidence_packs, rerank_scores, final_results,
                   current_agent, stage_timings, match_quality, response, events,
                   model_loads, search_query_text, norm_input>>
    /\ UNCHANGED chunk_matches

\* tools.py lines 53-61: normalize_skills called with the list it returned
NormalizeSkillsAgain ==
    /\ pc = "normalized"
    /\ norm_input' = norm_output
    /\ norm_output' = NormalizeSkills(norm_output)
    /\ pc' = "renormalized"
    /\ UNCHANGED <<query_text, parsed, mission_spec, sparse_results, dense_results,
                   fused_candidates, evidence_packs, rerank_scores, final_results,
                   current_agent, stage_timings, match_quality, response, events,
                   model_loads, search_query_text>>
    /\ UNCHANGED chunk_matches

InitNormalize ==
    /\ pc = "normalize"
    /\ query_text = ""
    /\ parsed = NoDict
    /\ mission_spec = NoDict
    /\ sparse_results = <<>>
    /\ dense_results = <<>>
    /\ fused_candidates = <<>>
    /\ evidence_packs = <<>>
    /\ rerank_scores = <<>>
    /\ final_results = <<>>
    /\ current_agent = ""
    /\ stage_timings = {}
    /\ match_quality = ""
    /\ response = NoResponse
    /\ events = <<>>
    /\ model_loads = <<>>
    /\ search_query_text = ""
    /\ norm_input \in UNION {[1..n -> RawSkills] : n \in 0..MaxSkills}
    /\ norm_output = <<>>
    /\ chunk_matches = <<>>

NextNormalize == NormalizeSkillsCall \/ NormalizeSkillsAgain

SpecNormalize == InitNormalize /\ [][NextNormalize]_vars

\* C19: normalize_skill applied to its own result returns that result, for
\* every raw skill, and normalize_skills applied to the list it returned
\* returns that list.
C19_NormalizationIdempotent ==
    /\ pc = "normalized" =>
          \A i \in 1..Len(norm_input) :
             NormalizeSkill(NormalizeSkill(norm_input[i])) = NormalizeSkill(norm_input[i])
    /\ pc = "renormalized" => norm_output = norm_input

\* the query text of section 4.2: the raw query if there is one, else
\* "Skills: " and the skills joined by "; " and "."
CombinedQueryText(spec) ==
    IF spec.raw_query # "" THEN spec.raw_query
    ELSE "Skills: " \o Join("; ", spec.must_have \o spec.nice_to_have) \o "."

\* C20: once Retrieval has called its searches, the query text it passed to
\* them is the raw query of the mission_spec when that is not empty, and the
\* "Skills: ..." string of the must_have and nice_to_have skills otherwise.
C20_SearchesGetTheRawQuery ==
    (pc \notin {"jd_understanding", "retrieval"} /\ "raw_query" \in DOMAIN mission_spec) =>
        search_query_text = CombinedQueryText(mission_spec)

\* the mission_spec of an empty query: no raw query and no skill
EmptyQuerySpec ==
    /\ "raw_query" \in DOMAIN mission_spec
    /\ mission_spec.raw_query = ""
    /\ mission_spec.must_have = <<>>
    /\ mission_spec.nice_to_have = <<>>

\* C21: when Retrieval has completed for an empty query it has not called
\* search_skills_db, it has searched with the empty string, and both
\* sparse_results and dense_results are empty.
C21_EmptyQueryRetrievesNothing ==
    (EmptyQuerySpec /\ "retrieval" \in stage_timings) =>
        /\ \A i \in 1..Len(events) : events[i].tool # "search_skills_db"
        /\ search_query_text = ""
        /\ sparse_results = <<>>
        /\ dense_results = <<>>

---------------------------------------------------------------------------
(* lexical_search_chunks of tools.py on its own, with the scores of the
   chunks: the search applied to every assignment of occurrence counts to the
   chunks a1, b1, c1 and d1 of the store *)

MaxCount == 2

LexicalLimit == 2

\* the stored chunks the search reads, in storage order
SearchedChunks == <<1, 7, 8, 9>>

\* lines 148-154: the entry of a stored chunk with its score
ScoredHit(d, score, rank) == [score |-> score] @@ Hit(resume_chunks[d], rank, "sparse")

\* lines 127-159: counts[d] is the number of occurrences of the terms in the
\* text of chunk d, so the $regex filter keeps the chunks with a count above
\* 0; find(...).limit(limit) reads the first limit of them in storage
\* order, and only these are scored, sorted and ranked
LexicalSearch(counts, docs, limit) ==
    LET matching == SelectSeq(docs, LAMBDA d : counts[d] > 0)
        chunks == Take(matching, limit)
        scored == [i \in 1..Len(chunks) |-> ScoredHit(chunks[i], counts[chunks[i]], 0)]
        sorted == StableSort(scored, [i, j \in 1..Len(scored) |->
                                         scored[i].score > scored[j].score])
        ranked == [i \in 1..Len(sorted) |-> [sorted[i] EXCEPT !.rank = i]]
    IN  Take(ranked, limit)

\* a request calls lexical_search_chunks with a query that has terms and no
\* candidate_ids
LexicalSearchChunksCall ==
    /\ pc = "lexical_search"
    /\ sparse_results' = LexicalSearch(chunk_matches, SearchedChunks, LexicalLimit)
    /\ pc' = "searched"
    /\ UNCHANGED <<query_text, parsed, mission_spec, dense_results,
                   fused_candidates, evidence_packs, rerank_scores, final_results,
                   current_agent, stage_timings, match_quality, response, events,
                   model_loads, search_query_text, norm_input, norm_output,
                   chunk_matches>>

InitLexical ==
    /\ pc = "lexical_search"
    /\ query_text = "seo"
    /\ parsed = NoDict
    /\ mission_spec = MissionSpecOf(<<>>, <<>>, Null, <<>>, "seo")
    /\ sparse_results = <<>>
    /\ dense_results = <<>>
    /\ fused_candidates = <<>>
    /\ evidence_packs = <<>>
    /\ rerank_scores = <<>>
    /\ final_results = <<>>
    /\ current_agent = "jd_understanding"
    /\ stage_timings = {"jd_understanding"}
    /\ match_quality = ""
    /\ response = NoResponse
    /\ events = <<>>
    /\ model_loads = <<>>
    /\ search_query_text = "seo"
    /\ norm_input = <<>>
    /\ norm_output = <<>>
    /\ chunk_matches \in [Range(SearchedChunks) -> 0..MaxCount]

NextLexical == LexicalSearchChunksCall

SpecLexical == InitLexical /\ [][NextLexical]_vars

\* the stored chunk of a hit
DocOf(hit) == CHOOSE d \in 1..Len(resume_chunks) : resume_chunks[d].chunkId = hit.chunk_id

\* C22: the list lexical_search_chunks returns holds min(limit, matching
\* chunks) entries with rank = 1..len, sorted by score descending with ties
\* in storage order, each score being the count of its chunk, and no
\* matching chunk left out has a higher score than a returned one.
C22_LexicalTopN ==
    pc = "searched" =>
        LET matching == {d \in Range(SearchedChunks) : chunk_matches[d] > 0}
            returned == {DocOf(sparse_results[i]) : i \in 1..Len(sparse_results)}
        IN  /\ Len(sparse_results) = Min(LexicalLimit, Cardinality(matching))
            /\ returned \subseteq matching
            /\ \A i \in 1..Len(sparse_results) :
                  /\ sparse_results[i].rank = i
                  /\ sparse_results[i].score = chunk_matches[DocOf(sparse_results[i])]
            /\ \A i, j \in 1..Len(sparse_results) :
                  i < j => \/ sparse_results[i].score > sparse_results[j].score
                           \/ /\ sparse_results[i].score = sparse_results[j].score
                              /\ DocOf(sparse_results[i]) < DocOf(sparse_results[j])
            /\ \A d \in matching \ returned : \A i \in 1..Len(sparse_results) :
                  chunk_matches[d] <= sparse_results[i].score

\* the ranks of the hits of candidate cid in a hit list
RanksIn(results, cid) ==
    {results[i].rank : i \in {j \in 1..Len(results) : results[j].candidate_id = cid}}

\* the lowest of these ranks, null when the candidate has no hit in the list
BestRankIn(results, cid) ==
    IF RanksIn(results, cid) = {} THEN Null ELSE SetMin(RanksIn(results, cid))

\* C23: every fused candidate has as sparse_rank (dense_rank) the lowest rank
\* of its hits in sparse_results (dense_results), null without a hit, and as
\* rrf_score the sum of 1/(RRF_K + rank) over its ranks that are not null.
C23_RanksAndRrfScore ==
    pc = "evidence_building" =>
        \A i \in 1..Len(fused_candidates) :
            LET c == fused_candidates[i]
                sr == BestRankIn(sparse_results, c.candidate_id)
                dr == BestRankIn(dense_results, c.candidate_id)
            IN  /\ c.sparse_rank = sr
                /\ c.dense_rank = dr
                /\ sr # Null /\ dr # Null =>
                      c.rrf_score[1] * (RRF_K + sr) * (RRF_K + dr)
                         = c.rrf_score[2] * ((RRF_K + sr) + (RRF_K + dr))
                /\ sr # Null /\ dr = Null => c.rrf_score[1] * (RRF_K + sr) = c.rrf_score[2]
                /\ sr = Null /\ dr # Null => c.rrf_score[1] * (RRF_K + dr) = c.rrf_score[2]
                /\ sr # Null \/ dr # Null

\* a fusion with a candidate of two lexical hits, a candidate that only the
\* lexical list holds and a candidate in both lists
C23_Witness ==
    /\ pc = "evidence_building"
    /\ \E i \in 1..Len(fused_candidates) :
          Cardinality(RanksIn(sparse_results, fused_candidates[i].candidate_id)) > 1
    /\ \E i \in 1..Len(fused_candidates) :
          /\ fused_candidates[i].dense_rank = Null
          /\ fused_candidates[i].sparse_rank # Null
    /\ \E i \in 1..Len(fused_candidates) :
          /\ fused_candidates[i].dense_rank # Null
          /\ fused_candidates[i].sparse_rank # Null

\* C24: in final_results, of two records with the same final_score the one
\* with the higher rrf_score comes first, and of two records with the same
\* final_score and rrf_score the one with the lower candidate_id comes first.
C24_FinalResultsTieOrder ==
    pc = "assembly" =>
        \A i, j \in 1..Len(final_results) :
            (i < j /\ final_results[i].final_score = final_results[j].final_score) =>
                /\ final_results[i].rrf_score >= final_results[j].rrf_score
                /\ final_results[i].rrf_score = final_results[j].rrf_score =>
                      final_results[i].candidate_id < final_results[j].candidate_id

\* C25: every hit of sparse_results and dense_results has a source among
\* lexical and vector, and every item of every evidence pack has a
\* why_matched among lexical, vector and both.
C25_SourceTagsAreLexicalVector ==
    /\ \A i \in 1..Len(sparse_results) : sparse_results[i].source \in {"lexical", "vector"}
    /\ \A i \in 1..Len(dense_results) : dense_results[i].source \in {"lexical", "vector"}
    /\ \A cid \in DOMAIN evidence_packs :
          \A i \in 1..Len(evidence_packs[cid].evidence) :
             evidence_packs[cid].evidence[i].why_matched \in {"lexical", "vector", "both"}

\* the run-state fields that the stage named stage writes
WritesOf(stage) ==
    CASE stage = "jd_understanding" -> {"mission_spec"}
      [] stage = "retrieval" -> {"sparse_results", "dense_results"}
      [] stage = "fusion" -> {"fused_candidates"}
      [] stage = "evidence_building" -> {"evidence_packs"}
      [] stage = "ranking" -> {"rerank_scores", "final_results"}
      [] OTHER -> {}

\* C26: a step of the run changes no run-state field but the ones the stage
\* that runs writes, current_agent and stage_timings; query_text never
\* changes, and stage_timings keeps its keys and gains at most the key of
\* the stage that runs.
C26_StagesWriteOnlyTheirFields ==
    [][ /\ query_text' = query_text
        /\ "mission_spec" \notin WritesOf(pc) => mission_spec' = mission_spec
        /\ "sparse_results" \notin WritesOf(pc) => sparse_results' = sparse_results
        /\ "dense_results" \notin WritesOf(pc) => dense_results' = dense_results
        /\ "fused_candidates" \notin WritesOf(pc) => fused_candidates' = fused_candidates
        /\ "evidence_packs" \notin WritesOf(pc) => evidence_packs' = evidence_packs
        /\ "rerank_scores" \notin WritesOf(pc) => rerank_scores' = rerank_scores
        /\ "final_results" \notin WritesOf(pc) => final_results' = final_results
        /\ stage_timings \subseteq stage_timings'
        /\ stage_timings' \subseteq stage_timings \cup {pc}
      ]_vars

\* a finished run in which the six stages have run and every list and dict of
\* the run state holds something
C26_Witness ==
    /\ pc = "done"
    /\ stage_timings = {"jd_understanding", "retrieval", "fusion", "evidence_building",
                        "ranking", "assembly"}
    /\ Len(sparse_results) > 0
    /\ Len(dense_results) > 0
    /\ Len(fused_candidates) > 0
    /\ DOMAIN evidence_packs # {}
    /\ DOMAIN rerank_scores # {}
    /\ Len(final_results) > 0


---------------------------------------------------------------------------
(* The character budget of an evidence pack *)

\* the candidate's evidence in sorted order, before the bounds are applied
SortedEvidence(cid) ==
    SortEvidence(MergeDense(ChunksOf(dense_results, cid), 1,
                            MergeSparse(ChunksOf(sparse_results, cid), 1, <<>>)))

\* how many leading items fit whole in the two bounds
FitCount(all_evidence) ==
    SetMax({k \in 0..Min(Len(all_evidence), MAX_CHUNKS_PER_CANDIDATE) :
               SumLen(Take(all_evidence, k)) <= MAX_TOTAL_CHARS_PER_CANDIDATE})

\* the next item would exceed the character bound
Overflows(all_evidence) ==
    /\ FitCount(all_evidence) < Len(all_evidence)
    /\ FitCount(all_evidence) < MAX_CHUNKS_PER_CANDIDATE

RemainingAfterFit(all_evidence) ==
    MAX_TOTAL_CHARS_PER_CANDIDATE - SumLen(Take(all_evidence, FitCount(all_evidence)))

\* C27: when the next item in sorted order would exceed
\* MAX_TOTAL_CHARS_PER_CANDIDATE it is added, cut and ending in "...", if at
\* least 50 characters of budget remain and is not added if fewer remain, and
\* no later item is added; the items that fit are added unmodified, so a
\* snippet ends in an added ellipsis iff it was truncated.
C27_TruncateWhenFiftyRemain ==
    pc = "ranking" =>
        \A cid \in DOMAIN evidence_packs :
            LET all_evidence == SortedEvidence(cid)
                k == FitCount(all_evidence)
                bounded == evidence_packs[cid].evidence
            IN  /\ Len(bounded) >= k
                /\ \A i \in 1..k : bounded[i] = all_evidence[i]
                /\ IF Overflows(all_evidence) /\ RemainingAfterFit(all_evidence) >= 50
                   THEN /\ Len(bounded) = k + 1
                        /\ bounded[k + 1].chunk_id = all_evidence[k + 1].chunk_id
                        /\ bounded[k + 1].text_snippet.dots
                   ELSE Len(bounded) = k
                /\ \A i \in 1..Len(bounded) : bounded[i].text_snippet.dots <=> i > k

\* the same with the threshold the loop tests: more than 50 characters remain
C27_TruncateWhenOverFiftyRemain ==
    pc = "ranking" =>
        \A cid \in DOMAIN evidence_packs :
            LET all_evidence == SortedEvidence(cid)
                k == FitCount(all_evidence)
                bounded == evidence_packs[cid].evidence
            IN  /\ Len(bounded) >= k
                /\ \A i \in 1..k : bounded[i] = all_evidence[i]
                /\ IF Overflows(all_evidence) /\ RemainingAfterFit(all_evidence) > 50
                   THEN /\ Len(bounded) = k + 1
                        /\ bounded[k + 1].chunk_id = all_evidence[k + 1].chunk_id
                        /\ bounded[k + 1].text_snippet.dots
                   ELSE Len(bounded) = k
                /\ \A i \in 1..Len(bounded) : bounded[i].text_snippet.dots <=> i > k


---------------------------------------------------------------------------
(* _build_evidence_for_candidate on its own: the merge of any two chunk
   lists of one candidate, a chunk id repeated in a list included *)

MergeDocs == {1, 2, 7}

MaxChunks == 2

\* the lists of at most n hits over the stored chunks numbered in docs,
\* repeats allowed
ChunkLists(docs, n, source) ==
    UNION {{[i \in 1..k |-> Hit(resume_chunks[q[i]], i, source)] : q \in [1..k -> docs]} :
              k \in 0..n}

\* evidence_agent_node lines 66-71 for the candidates of the two lists
BuildEvidenceCall ==
    /\ pc = "merge"
    /\ pc' = "merged"
    /\ evidence_packs' = [cid \in Range(CandidateIds(sparse_results)) \cup
                                    Range(CandidateIds(dense_results)) |->
                            BuildEvidenceForCandidate(cid, ChunksOf(sparse_results, cid),
                                                      ChunksOf(dense_results, cid))]
    /\ UNCHANGED <<query_text, parsed, mission_spec, sparse_results, dense_results,
                   fused_candidates, rerank_scores, final_results, current_agent,
                   stage_timings, match_quality, response, events, model_loads,
                   search_query_text, norm_input, norm_output, chunk_matches>>

InitMerge ==
    /\ pc = "merge"
    /\ query_text = "seo"
    /\ parsed = NoDict
    /\ mission_spec = MissionSpecOf(<<"seo">>, <<>>, Null, <<>>, "seo")
    /\ sparse_results \in ChunkLists(MergeDocs, MaxChunks, "sparse")
    /\ dense_results \in ChunkLists(MergeDocs, MaxChunks, "dense")
    /\ fused_candidates = <<>>
    /\ evidence_packs = <<>>
    /\ rerank_scores = <<>>
    /\ final_results = <<>>
    /\ current_agent = "fusion"
    /\ stage_timings = {"jd_understanding", "retrieval", "fusion"}
    /\ match_quality = ""
    /\ response = NoResponse
    /\ events = <<>>
    /\ model_loads = <<"embedder">>
    /\ search_query_text = "seo"
    /\ norm_input = <<>>
    /\ norm_output = <<>>
    /\ chunk_matches = <<>>

NextMerge == BuildEvidenceCall

SpecMerge == InitMerge /\ [][NextMerge]_vars

---------------------------------------------------------------------------
(* The skill gate of Retrieval *)

\* the candidates that hold at least max(1, floor(|must_have| / 2)) of the
\* must_have skills
GateSet(must_have) ==
    LET min_match == Max(1, Len(must_have) \div 2)
        held(cid) == {r \in resume_skills :
                         /\ r.resumeId = cid
                         /\ r.skillCanonical \in Range(NormalizeSkills(must_have))}
    IN  {cid \in {r.resumeId : r \in resume_skills} : Cardinality(held(cid)) >= min_match}

\* the candidates of the stored chunks numbered in docs
OwnersOf(docs) == {resume_chunks[d].resumeId : d \in docs}

HitCandidates(results) == Range(CandidateIds(results))

GateBounded(must_have) == Len(must_have) > 0 /\ GateSet(must_have) # {}

---------------------------------------------------------------------------
(* The domain filter and the profiles assembly reads *)

\* the headline of the candidate's stored profile
StoredHeadline(cid) ==
    IF cid \in DOMAIN resumes_core THEN MakeHeadline(resumes_core[cid])
    ELSE "No title available"

\* a record that passes both hard filters on the candidate's stored profile
PassesOnStoredProfile(r, core_domain) ==
    /\ r.final_score >= 10 * MIN_RELEVANCE_SCORE
    /\ IsDomainRelevant(StoredHeadline(r.candidate_id), core_domain)

C30_DomainFilterOnFetchedProfiles ==
    ("assembly" \in stage_timings /\ CoreDomainOf(mission_spec) # "") =>
        ((\E i \in 1..Min(Len(final_results), 2 * MAX_RESULTS) :
              PassesOnStoredProfile(final_results[i], CoreDomainOf(mission_spec)))
           => match_quality = "strong")

===========================================================================
